---- MODULE Spec2Model ----
(***************************************************************************)
(* NGN.DATA.Store and NGN.DATA.Model (ngn-core): the in-memory record      *)
(* store with its indexes, duplicate policy and sorting, and the data      *)
(* model with its changelog and undo.                                      *)
(***************************************************************************)
EXTENDS Integers, Sequences, FiniteSets, TLC

\* ------------------------------------------------------------------ bounds
MaxOps == 4         \* operations called in one behaviour

\* ------------------------------------------------------- JavaScript values
\* A value is <<typeof, payload>>; the strings "a" and "b" are Str(1), Str(2).
Null == <<"null", 0>>
Undefined == <<"undefined", 0>>
Str(i) == <<"string", i>>
Num(i) == <<"number", i>>
Arr(s) == <<"object", s>>

\* a === b
StrictEquals(a, b) == a[1] = b[1] /\ a[2] = b[2]

Strings == {Str(1), Str(2)}
Numbers == {Num(1), Num(2)}
Values == {Null} \cup Strings \cup Numbers

\* The configured model: fields { lname: null, age: null }, index on lname.
FieldNames == <<"lname", "age">>
ConfiguredFields == FieldNames \o <<"id">>   \* the constructor adds fields.id
IndexedFields == {"lname"}
Range(s) == {s[i] : i \in 1..Len(s)}

VARIABLES
  fields,           \* keys of the model configuration's fields object
  heap,             \* the Model instances constructed so far
  _data,            \* Store._data: instance ids, in order
  _index,           \* Store._index: field -> array of buckets [value, pos...]
  _created,         \* Store._created
  _deleted,         \* Store._deleted
  _loading,         \* Store._loading
  _filters,         \* Store._filters
  allowDuplicates,  \* Store.allowDuplicates
  errorOnDuplicate, \* Store.errorOnDuplicate
  autoid,           \* the model configuration's autoid
  bus,              \* the event emitters: listeners, queues and pending timers
  emitted,          \* events emitted by the last operation, in order
  last,             \* the last operation: its name, arguments and outcome
  ops               \* the number of operations called so far

vars == <<fields, heap, _data, _index, _created, _deleted, _loading, _filters,
          allowDuplicates, errorOnDuplicate, autoid, bus, emitted, last, ops>>
storeVars == <<_data, _index, _created, _deleted, _loading, _filters,
               allowDuplicates, errorOnDuplicate>>
\* ------------------------------------------------------------ ordered maps
\* A JavaScript object with ordered own keys: a sequence of <<key, value>>.
Keys(m) == [i \in 1..Len(m) |-> m[i][1]]
Has(m, k) == \E i \in 1..Len(m) : m[i][1] = k
Get(m, k) == IF Has(m, k) THEN m[CHOOSE i \in 1..Len(m) : m[i][1] = k][2] ELSE Undefined
Put(m, k, v) ==
  IF Has(m, k) THEN [i \in 1..Len(m) |-> IF m[i][1] = k THEN <<k, v>> ELSE m[i]]
  ELSE Append(m, <<k, v>>)
Del(m, k) == SelectSeq(m, LAMBDA p : p[1] # k)

\* Array.prototype.splice(start, count): <<removed, remaining>>
Splice(s, start, count) ==
  LET n == Len(s)
      from == IF start < 0 THEN (IF n + start < 0 THEN 0 ELSE n + start)
              ELSE (IF start > n THEN n ELSE start)
      cnt == IF count < 0 THEN 0 ELSE IF count > n - from THEN n - from ELSE count
  IN <<SubSeq(s, from + 1, from + cnt),
       SubSeq(s, 1, from) \o SubSeq(s, from + cnt + 1, n)>>

\* Array.prototype.indexOf with ===, zero-based, -1 when absent
IndexOf(s, x) ==
  IF \E i \in 1..Len(s) : s[i] = x
  THEN (CHOOSE i \in 1..Len(s) : s[i] = x /\ \A j \in 1..(i - 1) : s[j] # x) - 1
  ELSE -1

Reverse(s) == [i \in 1..Len(s) |-> s[Len(s) + 1 - i]]

\* ---------------------------------------------------------------- checksum
\* NGN.DATA.util.checksum (CRC-32) of JSON.stringify(data), as <<high 16 bits,
\* low 16 bits>>, for every serialization the model's values can produce.
CRC32 ==
    (<<>> :> <<41894, 48963>>) @@
    (<<<<"lname", <<"null", 0>>>>>> :> <<41511, 47766>>) @@
    (<<<<"lname", <<"string", 1>>>>>> :> <<33030, 14888>>) @@
    (<<<<"lname", <<"string", 2>>>>>> :> <<33600, 33905>>) @@
    (<<<<"lname", <<"number", 1>>>>>> :> <<33101, 55719>>) @@
    (<<<<"lname", <<"number", 2>>>>>> :> <<43616, 35428>>) @@
    (<<<<"age", <<"null", 0>>>>>> :> <<20416, 30445>>) @@
    (<<<<"age", <<"string", 1>>>>>> :> <<56905, 25000>>) @@
    (<<<<"age", <<"string", 2>>>>>> :> <<56335, 57329>>) @@
    (<<<<"age", <<"number", 1>>>>>> :> <<36192, 41411>>) @@
    (<<<<"age", <<"number", 2>>>>>> :> <<42573, 61952>>) @@
    (<<<<"lname", <<"null", 0>>>>, <<"age", <<"null", 0>>>>>> :> <<2842, 7563>>) @@
    (<<<<"lname", <<"null", 0>>>>, <<"age", <<"string", 1>>>>>> :> <<15, 29892>>) @@
    (<<<<"lname", <<"null", 0>>>>, <<"age", <<"string", 2>>>>>> :> <<585, 51869>>) @@
    (<<<<"lname", <<"null", 0>>>>, <<"age", <<"number", 1>>>>>> :> <<25648, 14041>>) @@
    (<<<<"lname", <<"null", 0>>>>, <<"age", <<"number", 2>>>>>> :> <<20253, 25882>>) @@
    (<<<<"lname", <<"string", 1>>>>, <<"age", <<"null", 0>>>>>> :> <<657, 45658>>) @@
    (<<<<"lname", <<"string", 1>>>>, <<"age", <<"string", 1>>>>>> :> <<15852, 36552>>) @@
    (<<<<"lname", <<"string", 1>>>>, <<"age", <<"string", 2>>>>>> :> <<16298, 12433>>) @@
    (<<<<"lname", <<"string", 1>>>>, <<"age", <<"number", 1>>>>>> :> <<26059, 39929>>) @@
    (<<<<"lname", <<"string", 1>>>>, <<"age", <<"number", 2>>>>>> :> <<20198, 51258>>) @@
    (<<<<"lname", <<"string", 2>>>>, <<"age", <<"null", 0>>>>>> :> <<32496, 38785>>) @@
    (<<<<"lname", <<"string", 2>>>>, <<"age", <<"string", 1>>>>>> :> <<32806, 57862>>) @@
    (<<<<"lname", <<"string", 2>>>>, <<"age", <<"string", 2>>>>>> :> <<33376, 23647>>) @@
    (<<<<"lname", <<"string", 2>>>>, <<"age", <<"number", 1>>>>>> :> <<64553, 65016>>) @@
    (<<<<"lname", <<"string", 2>>>>, <<"age", <<"number", 2>>>>>> :> <<55044, 44603>>) @@
    (<<<<"lname", <<"number", 1>>>>, <<"age", <<"null", 0>>>>>> :> <<26266, 22699>>) @@
    (<<<<"lname", <<"number", 1>>>>, <<"age", <<"string", 1>>>>>> :> <<23982, 49105>>) @@
    (<<<<"lname", <<"number", 1>>>>, <<"age", <<"string", 2>>>>>> :> <<24552, 392>>) @@
    (<<<<"lname", <<"number", 1>>>>, <<"age", <<"number", 1>>>>>> :> <<47111, 19114>>) @@
    (<<<<"lname", <<"number", 1>>>>, <<"age", <<"number", 2>>>>>> :> <<37674, 6505>>) @@
    (<<<<"lname", <<"number", 2>>>>, <<"age", <<"null", 0>>>>>> :> <<56144, 13413>>) @@
    (<<<<"lname", <<"number", 2>>>>, <<"age", <<"string", 1>>>>>> :> <<10800, 27937>>) @@
    (<<<<"lname", <<"number", 2>>>>, <<"age", <<"string", 2>>>>>> :> <<10358, 54136>>) @@
    (<<<<"lname", <<"number", 2>>>>, <<"age", <<"number", 1>>>>>> :> <<21296, 61865>>) @@
    (<<<<"lname", <<"number", 2>>>>, <<"age", <<"number", 2>>>>>> :> <<30749, 41578>>) @@
    (<<<<"age", <<"null", 0>>>>, <<"lname", <<"null", 0>>>>>> :> <<36705, 60654>>) @@
    (<<<<"age", <<"null", 0>>>>, <<"lname", <<"string", 1>>>>>> :> <<50623, 53207>>) @@
    (<<<<"age", <<"null", 0>>>>, <<"lname", <<"string", 2>>>>>> :> <<51193, 29070>>) @@
    (<<<<"age", <<"null", 0>>>>, <<"lname", <<"number", 1>>>>>> :> <<58419, 43351>>) @@
    (<<<<"age", <<"null", 0>>>>, <<"lname", <<"number", 2>>>>>> :> <<53022, 64148>>) @@
    (<<<<"age", <<"string", 1>>>>, <<"lname", <<"null", 0>>>>>> :> <<30086, 8936>>) @@
    (<<<<"age", <<"string", 1>>>>, <<"lname", <<"string", 1>>>>>> :> <<11596, 43721>>) @@
    (<<<<"age", <<"string", 1>>>>, <<"lname", <<"string", 2>>>>>> :> <<12042, 5264>>) @@
    (<<<<"age", <<"string", 1>>>>, <<"lname", <<"number", 1>>>>>> :> <<20938, 43378>>) @@
    (<<<<"age", <<"string", 1>>>>, <<"lname", <<"number", 2>>>>>> :> <<31463, 64177>>) @@
    (<<<<"age", <<"string", 2>>>>, <<"lname", <<"null", 0>>>>>> :> <<23630, 38426>>) @@
    (<<<<"age", <<"string", 2>>>>, <<"lname", <<"string", 1>>>>>> :> <<15409, 49328>>) @@
    (<<<<"age", <<"string", 2>>>>, <<"lname", <<"string", 2>>>>>> :> <<15991, 32489>>) @@
    (<<<<"age", <<"string", 2>>>>, <<"lname", <<"number", 1>>>>>> :> <<60416, 50620>>) @@
    (<<<<"age", <<"string", 2>>>>, <<"lname", <<"number", 2>>>>>> :> <<50989, 38527>>) @@
    (<<<<"age", <<"number", 1>>>>, <<"lname", <<"null", 0>>>>>> :> <<25578, 4892>>) @@
    (<<<<"age", <<"number", 1>>>>, <<"lname", <<"string", 1>>>>>> :> <<11698, 6934>>) @@
    (<<<<"age", <<"number", 1>>>>, <<"lname", <<"string", 2>>>>>> :> <<12276, 42319>>) @@
    (<<<<"age", <<"number", 1>>>>, <<"lname", <<"number", 1>>>>>> :> <<13326, 57322>>) @@
    (<<<<"age", <<"number", 1>>>>, <<"lname", <<"number", 2>>>>>> :> <<7971, 35881>>) @@
    (<<<<"age", <<"number", 2>>>>, <<"lname", <<"null", 0>>>>>> :> <<29335, 31077>>) @@
    (<<<<"age", <<"number", 2>>>>, <<"lname", <<"string", 1>>>>>> :> <<20947, 16077>>) @@
    (<<<<"age", <<"number", 2>>>>, <<"lname", <<"string", 2>>>>>> :> <<21397, 32916>>) @@
    (<<<<"age", <<"number", 2>>>>, <<"lname", <<"number", 1>>>>>> :> <<17296, 3354>>) @@
    (<<<<"age", <<"number", 2>>>>, <<"lname", <<"number", 2>>>>>> :> <<26813, 24281>>) @@
    (<<<<"lname", <<"null", 0>>>>, <<"age", <<"null", 0>>>>, <<"id", <<"string", 3>>>>>> :> <<32376, 6230>>) @@
    (<<<<"lname", <<"null", 0>>>>, <<"age", <<"null", 0>>>>, <<"id", <<"string", 4>>>>>> :> <<64749, 22320>>) @@
    (<<<<"lname", <<"null", 0>>>>, <<"age", <<"null", 0>>>>, <<"id", <<"string", 5>>>>>> :> <<65195, 59753>>) @@
    (<<<<"lname", <<"null", 0>>>>, <<"age", <<"null", 0>>>>, <<"id", <<"string", 6>>>>>> :> <<65385, 33630>>) @@
    (<<<<"lname", <<"null", 0>>>>, <<"age", <<"null", 0>>>>, <<"id", <<"string", 7>>>>>> :> <<64038, 38363>>) @@
    (<<<<"lname", <<"null", 0>>>>, <<"age", <<"null", 0>>>>, <<"id", <<"string", 8>>>>>> :> <<64484, 65516>>) @@
    (<<<<"lname", <<"null", 0>>>>, <<"age", <<"null", 0>>>>, <<"id", <<"string", 9>>>>>> :> <<63906, 16821>>) @@
    (<<<<"lname", <<"null", 0>>>>, <<"age", <<"null", 0>>>>, <<"id", <<"string", 10>>>>>> :> <<63584, 11138>>) @@
    (<<<<"lname", <<"null", 0>>>>, <<"age", <<"null", 0>>>>, <<"id", <<"string", 11>>>>>> :> <<62268, 27839>>) @@
    (<<<<"lname", <<"null", 0>>>>, <<"age", <<"null", 0>>>>, <<"id", <<"string", 12>>>>>> :> <<62206, 1672>>) @@
    (<<<<"lname", <<"null", 0>>>>, <<"age", <<"null", 0>>>>, <<"id", <<"string", 13>>>>>> :> <<36945, 31104>>) @@
    (<<<<"lname", <<"null", 0>>>>, <<"age", <<"null", 0>>>>, <<"id", <<"string", 14>>>>>> :> <<37399, 51161>>) @@
    (<<<<"lname", <<"string", 1>>>>, <<"age", <<"null", 0>>>>, <<"id", <<"string", 3>>>>>> :> <<41847, 22476>>) @@
    (<<<<"lname", <<"string", 1>>>>, <<"age", <<"null", 0>>>>, <<"id", <<"string", 4>>>>>> :> <<46305, 5914>>) @@
    (<<<<"lname", <<"string", 1>>>>, <<"age", <<"null", 0>>>>, <<"id", <<"string", 5>>>>>> :> <<46759, 43331>>) @@
    (<<<<"lname", <<"string", 1>>>>, <<"age", <<"null", 0>>>>, <<"id", <<"string", 6>>>>>> :> <<46949, 50036>>) @@
    (<<<<"lname", <<"string", 1>>>>, <<"age", <<"null", 0>>>>, <<"id", <<"string", 7>>>>>> :> <<45610, 54769>>) @@
    (<<<<"lname", <<"string", 1>>>>, <<"age", <<"null", 0>>>>, <<"id", <<"string", 8>>>>>> :> <<46056, 49094>>) @@
    (<<<<"lname", <<"string", 1>>>>, <<"age", <<"null", 0>>>>, <<"id", <<"string", 9>>>>>> :> <<45486, 415>>) @@
    (<<<<"lname", <<"string", 1>>>>, <<"age", <<"null", 0>>>>, <<"id", <<"string", 10>>>>>> :> <<45164, 27560>>) @@
    (<<<<"lname", <<"string", 1>>>>, <<"age", <<"null", 0>>>>, <<"id", <<"string", 11>>>>>> :> <<47920, 11413>>) @@
    (<<<<"lname", <<"string", 1>>>>, <<"age", <<"null", 0>>>>, <<"id", <<"string", 12>>>>>> :> <<47858, 18082>>) @@
    (<<<<"lname", <<"string", 1>>>>, <<"age", <<"null", 0>>>>, <<"id", <<"string", 13>>>>>> :> <<55389, 14762>>) @@
    (<<<<"lname", <<"string", 1>>>>, <<"age", <<"null", 0>>>>, <<"id", <<"string", 14>>>>>> :> <<55835, 34803>>)

\* JSON.stringify omits the keys whose value is undefined
JSONStringify(d) == SelectSeq(d, LAMBDA p : p[2] # Undefined)

checksum(str) == CRC32[str]

\* ------------------------------------------------------------------- Model
NoBenchmark == <<-1, -1>>

\* Model.serialize / Model.data: the raw keys that are configured fields, and
\* the id of a Model with autoid
ModelData(m, flds) ==
  LET d == SelectSeq(m.raw, LAMBDA p : p[1] \in Range(flds))
  IN IF ~Has(d, "id") /\ m.autoid THEN Append(d, <<"id", m.oid>>) ELSE d

ModelChecksum(m, flds) == checksum(JSONStringify(ModelData(m, flds)))

\* Model.modified
Modified(m, flds) == ModelChecksum(m, flds) # m.benchmark

\* new Model(cfg): addField(field, true) for every configured field
NewModel(flds) ==
  [raw |-> LET own == SelectSeq(flds, LAMBDA f : f # "id")
           IN [i \in 1..Len(own) |-> <<own[i], Null>>],
   changelog |-> <<>>,
   plain |-> <<>>,
   benchmark |-> NoBenchmark,
   validators |-> <<>>,
   invalid |-> <<>>,
   rawjoins |-> <<>>,
   autoid |-> FALSE,
   oid |-> Null,
   listeners |-> 0]

\* a setUnmodified that keeps the changelog
SetUnmodifiedKeepsLog(m, flds) == [m EXCEPT !.benchmark = ModelChecksum(m, flds)]

\* Model.setUnmodified
SetUnmodified(m, flds) ==
  [m EXCEPT !.benchmark = ModelChecksum(m, flds), !.changelog = <<>>]

\* a load that writes nothing
LoadNoKeys(raw, d, i, flds) == raw

\* Model.load(data): configured keys the model holds are written to raw
RECURSIVE LoadKeys(_, _, _, _)
LoadKeys(raw, d, i, flds) ==
  IF i > Len(d) THEN raw
  ELSE LET key == d[i][1]
       IN LoadKeys(IF key \in Range(flds) /\ Has(raw, key)
                   THEN Put(raw, key, d[i][2]) ELSE raw, d, i + 1, flds)

ModelLoad(m, d, flds) ==
  SetUnmodified([m EXCEPT !.raw = LoadKeys(m.raw, d, 1, flds),
                          !.oid = IF Has(d, "id") /\ "id" \in Range(flds) /\ ~Has(m.raw, "id")
                                  THEN Get(d, "id") ELSE @],
                flds)

\* NGN.DATA.Model(cfg) -> ModelLoader(data)
ModelLoader(d, flds) == ModelLoad(NewModel(flds), d, flds)

\* NGN.DATA.util.GUID(): the k-th identifier drawn, a string that differs
\* from "a", "b", "x" and from every other identifier drawn
GUID(k) == Str(k + 3)

\* new Model(cfg) with cfg.autoid: addField('id') gives the null id a GUID
NewAutoidModel(flds, guid) == [NewModel(flds) EXCEPT !.autoid = TRUE, !.oid = guid]
AutoidModelLoader(d, flds, guid) == ModelLoad(NewAutoidModel(flds, guid), d, flds)

\* record.hasOwnProperty(field), record[field]: a field's accessor reads raw;
\* plain holds the data properties assigned under a name without an accessor
HasOwnProperty(m, field) == Has(m.raw, field) \/ Has(m.plain, field)
FieldValue(m, field) == IF Has(m.raw, field) THEN Get(m.raw, field) ELSE Get(m.plain, field)

\* the changelog entries; a key an entry does not carry reads undefined
UpdateChange(field, old, new) ==
  [action |-> "update", field |-> field, old |-> old, new |-> new, value |-> Undefined]
CreateChange(field) ==
  [action |-> "create", field |-> field, old |-> Undefined, new |-> Undefined,
   value |-> Undefined]
DeleteChange(field, val) ==
  [action |-> "delete", field |-> field, old |-> Undefined, new |-> Undefined,
   value |-> val]

\* ------------------------------------------------------------ Store state
\* One operation works on a snapshot of the program state and the actions
\* below commit the snapshot it returns.
Cur ==
  [fields |-> fields, heap |-> heap, data |-> _data, index |-> _index,
   created |-> _created, deleted |-> _deleted, loading |-> _loading,
   filters |-> _filters, autoid |-> autoid,
   emitted |-> <<>>, threw |-> FALSE, result |-> Undefined]

Emit(st, name, payload) == [st EXCEPT !.emitted = Append(@, <<name, payload>>)]
Throw(st) == [st EXCEPT !.threw = TRUE]
Return(st, value) == [st EXCEPT !.result = value]

\* the checksum of the record stored at a one-based place of _data
StoredChecksum(st, i) == ModelChecksum(st.heap[st.data[i]], st.fields)

\* -------------------------------------------------------------- indexes
At0(bucket) == IF Len(bucket) = 0 THEN Undefined ELSE bucket[1]

\* bucket.indexOf(x) on an array of values
ValueIndexOf(s, x) ==
  IF \E i \in 1..Len(s) : StrictEquals(s[i], x)
  THEN (CHOOSE i \in 1..Len(s) :
          StrictEquals(s[i], x) /\ \A j \in 1..(i - 1) : ~StrictEquals(s[j], x)) - 1
  ELSE -1

\* Store.applyIndices for one field
ApplyIndex(values, m, field, number) ==
  IF ~HasOwnProperty(m, field) THEN values
  ELSE LET v == FieldValue(m, field)
           hit == {i \in 1..Len(values) : StrictEquals(At0(values[i]), v)}
       IN IF hit # {}
          THEN LET i == CHOOSE i \in hit : \A j \in hit : i <= j
               IN [values EXCEPT ![i] = Append(@, Num(number))]
          ELSE Append(values, <<v, Num(number)>>)

applyIndices(index, m, number) ==
  [field \in DOMAIN index |-> ApplyIndex(index[field], m, field, number)]

\* Store.unapplyIndices: _index[field] is an array of buckets, num a number
unapplyIndices(index, num) ==
  [field \in DOMAIN index |->
     LET asValues == [i \in 1..Len(index[field]) |-> Arr(index[field][i])]
         i == ValueIndexOf(asValues, Num(num))
     IN IF i >= 0 THEN Splice(index[field], i, 1)[2] ELSE index[field]]

\* a clearIndices that keeps the buckets
keepIndices(index) == index

\* Store.clearIndices
clearIndices(index) == [field \in DOMAIN index |-> <<>>]

\* Store.reindex
RECURSIVE ReindexFrom(_, _, _)
ReindexFrom(st, index, i) ==
  IF i > Len(st.data) THEN index
  ELSE ReindexFrom(st, applyIndices(index, st.heap[st.data[i]], i - 1), i + 1)

reindex(st) == [st EXCEPT !.index = ReindexFrom(st, clearIndices(st.index), 1)]
\* Array.prototype.sort() without a comparator orders by the elements'
\* string form; the elements here are the numbers -1 .. 99.
NumberToString(n) ==
  LET a == IF n < 0 THEN -n ELSE n
      digits == IF a < 10 THEN <<48 + a>> ELSE <<48 + (a \div 10), 48 + (a % 10)>>
  IN IF n < 0 THEN <<45>> \o digits ELSE digits

RECURSIVE CodeUnitsLess(_, _)
CodeUnitsLess(s, t) ==
  IF Len(t) = 0 THEN FALSE
  ELSE IF Len(s) = 0 THEN TRUE
  ELSE IF s[1] # t[1] THEN s[1] < t[1]
  ELSE CodeUnitsLess(Tail(s), Tail(t))

RECURSIVE InsertSorted(_, _)
InsertSorted(sorted, x) ==
  IF Len(sorted) = 0 THEN <<x>>
  ELSE IF CodeUnitsLess(NumberToString(x[2]), NumberToString(sorted[Len(sorted)][2]))
       THEN Append(InsertSorted(SubSeq(sorted, 1, Len(sorted) - 1), x), sorted[Len(sorted)])
       ELSE Append(sorted, x)

RECURSIVE DefaultSort(_)
DefaultSort(s) ==
  IF Len(s) = 0 THEN <<>>
  ELSE InsertSorted(DefaultSort(SubSeq(s, 1, Len(s) - 1)), s[Len(s)])

\* Store.updateIndice: the loop over the field's buckets
RECURSIVE UpdateBuckets(_, _, _, _, _, _)
UpdateBuckets(values, i, ct, oldValue, newValue, num) ==
  IF i > Len(values) THEN values
  ELSE
    LET value == At0(values[i])
        isOld == StrictEquals(value, oldValue)
        skip == ~isOld /\ StrictEquals(newValue, Undefined)
        isNew == ~isOld /\ ~skip /\ StrictEquals(value, newValue)
        bucket ==
          IF isOld
          THEN Splice(values[i], ValueIndexOf(values[i], Num(num)), 1)[2]
          ELSE IF isNew
          THEN <<value>> \o DefaultSort(Tail(Append(values[i], Num(num))))
          ELSE values[i]
        ct2 == IF isOld \/ skip \/ isNew THEN ct + 1 ELSE ct
        next == [values EXCEPT ![i] = bucket]
    IN IF ct2 = 2 THEN next
       ELSE UpdateBuckets(next, i + 1, ct2, oldValue, newValue, num)

updateIndice(index, field, oldValue, newValue, num) ==
  IF field \notin DOMAIN index \/ StrictEquals(oldValue, newValue) THEN index
  ELSE [index EXCEPT ![field] = UpdateBuckets(@, 1, 0, oldValue, newValue, num)]

\* Store.getIndices: <<returned array or Null, the index afterwards>>; the
\* matching bucket is shifted in place and is itself the array returned
getIndices(index, field, value) ==
  IF field \notin DOMAIN index THEN <<Null, index>>
  ELSE
    LET hit == {i \in 1..Len(index[field]) :
                  Len(index[field][i]) > 0 /\ StrictEquals(index[field][i][1], value)}
    IN IF Cardinality(hit) = 1
       THEN LET i == CHOOSE i \in hit : TRUE
                shifted == Tail(index[field][i])
            IN <<Arr(shifted), [index EXCEPT ![field][i] = shifted]>>
       ELSE <<Arr(<<>>), index>>
\* ------------------------------------------------------------------ Store
\* Store.isDuplicate; id is 0 for a record constructed by this call
\* a Store that never finds a duplicate
isDuplicateNever(st, m, id) == FALSE

isDuplicate(st, m, id) ==
  IF IndexOf(st.data, id) >= 0 THEN FALSE
  ELSE \E i \in 1..Len(st.data) : StoredChecksum(st, i) = ModelChecksum(m, st.fields)

\* Store.listen: one more pair of handlers on the record
listen(m) == [m EXCEPT !.listeners = @ + 1]

\* a Store that rejects a duplicate without announcing it
AddRecordUnannounced(st, m, id, suppressEvent) ==
  IF isDuplicate(st, m, id) /\ ~allowDuplicates
  THEN IF errorOnDuplicate THEN Throw(st) ELSE Return(st, Undefined)
  ELSE
    LET nid == IF id = 0 THEN Len(st.heap) + 1 ELSE id
        s2 == [st EXCEPT
                 !.heap = IF id = 0 THEN Append(@, listen(m))
                          ELSE [@ EXCEPT ![id] = listen(m)],
                 !.index = applyIndices(@, m, Len(st.data)),
                 !.data = Append(@, nid),
                 !.created = IF ~st.loading /\ IndexOf(@, nid) < 0
                             THEN Append(@, nid) ELSE @]
    IN Return(IF ~suppressEvent THEN Emit(s2, "record.create", nid) ELSE s2, nid)

\* Store.add from the duplicate test on: m is the record, id its place in the
\* heap (0 for a record constructed from a plain object by this call)
AddRecord(st, m, id, suppressEvent) ==
  LET dupe == isDuplicate(st, m, id)
      s1 == IF dupe THEN Emit(st, "record.duplicate", id) ELSE st
  IN IF dupe /\ ~allowDuplicates
     THEN IF errorOnDuplicate THEN Throw(s1) ELSE Return(s1, Undefined)
     ELSE
       LET nid == IF id = 0 THEN Len(s1.heap) + 1 ELSE id
           heard == listen(m)
           s2 == [s1 EXCEPT
                    !.heap = IF id = 0 THEN Append(@, heard) ELSE [@ EXCEPT ![id] = heard],
                    !.index = applyIndices(@, m, Len(s1.data)),
                    !.data = Append(@, nid),
                    !.created = IF ~s1.loading /\ IndexOf(@, nid) < 0
                                THEN Append(@, nid) ELSE @]
           s3 == IF ~suppressEvent THEN Emit(s2, "record.create", nid) ELSE s2
       IN Return(s3, nid)

\* Store.add(data) for a plain object and for a Model instance
add(st, data, suppressEvent) ==
  AddRecord(st,
            IF st.autoid THEN AutoidModelLoader(data, st.fields, GUID(Len(st.heap) + 1))
            ELSE ModelLoader(data, st.fields),
            0, suppressEvent)
addModel(st, id, suppressEvent) == AddRecord(st, st.heap[id], id, suppressEvent)

\* _data.findIndex(el => el.checksum === sum), zero-based
FindIndexByChecksum(st, sum) ==
  LET hit == {i \in 1..Len(st.data) : StoredChecksum(st, i) = sum}
  IN IF hit = {} THEN -1 ELSE (CHOOSE i \in hit : \A j \in hit : i <= j) - 1

\* Store.indexOf(record) for a Model instance
indexOf(st, id) == FindIndexByChecksum(st, ModelChecksum(st.heap[id], st.fields))

\* Store.remove from the computed dataIndex on
RemoveAt(st, dataIndex, suppressEvents) ==
  IF dataIndex < 0 THEN Throw(st)
  ELSE
    LET cut == Splice(st.data, dataIndex, 1)
    IN IF Len(cut[1]) = 0 THEN Return(st, Null)
       ELSE
         LET removedRecord == cut[1][1]
             i == IndexOf(st.created, removedRecord)
             s1 == [st EXCEPT
                      !.data = cut[2],
                      !.index = unapplyIndices(@, dataIndex),
                      !.created = IF ~st.loading /\ i >= 0 THEN Splice(@, i, 1)[2] ELSE @,
                      !.deleted = IF ~st.loading /\ i < 0 /\ IndexOf(@, removedRecord) < 0
                                  THEN Append(@, removedRecord) ELSE @]
             s2 == IF ~suppressEvents THEN Emit(s1, "record.delete", removedRecord) ELSE s1
         IN Return(s2, removedRecord)

\* Store.remove(number), remove(model instance), remove(plain object)
remove(st, n, suppressEvents) == RemoveAt(st, n, suppressEvents)
removeModel(st, id, suppressEvents) == RemoveAt(st, indexOf(st, id), suppressEvents)
removeObject(st, data, suppressEvents) ==
  RemoveAt(st, FindIndexByChecksum(st, ModelChecksum(ModelLoader(data, st.fields), st.fields)),
           suppressEvents)
\* Model.validateDataType: the type of a field defaults to String and no
\* field is required
validateDataType(m, field) ==
  LET fieldType == FieldValue(m, field)[1]
  IN IF fieldType # "null" THEN fieldType = "string" ELSE TRUE

\* Model.validate(field), the validators being the values of
\* addValidator(field, value): [ok, st]
RECURSIVE RunValidators(_, _, _, _, _)
RunValidators(checks, value, attribute, invalid, i) ==
  IF i > Len(checks) THEN [ok |-> TRUE, invalid |-> invalid]
  ELSE IF ~StrictEquals(value, checks[i])
  THEN [ok |-> FALSE,
        invalid |-> IF IndexOf(invalid, attribute) < 0 THEN Append(invalid, attribute)
                    ELSE invalid]
  ELSE RunValidators(checks, value, attribute,
                     SelectSeq(invalid, LAMBDA attr : attr # attribute), i + 1)

validate(st, id, attribute) ==
  LET m == st.heap[id]
      run == RunValidators(Get(m.validators, attribute), FieldValue(m, attribute),
                           attribute, m.invalid, 1)
      s1 == [st EXCEPT !.heap[id].invalid = run.invalid]
  IN IF ~Has(m.validators, attribute) THEN [ok |-> TRUE, st |-> st]
     ELSE IF ~run.ok THEN [ok |-> FALSE, st |-> s1]
     ELSE IF attribute \notin Range(st.fields)
     THEN [ok |-> FALSE, st |-> Throw(s1)]  \* TypeError: fields[attribute] is undefined
     ELSE IF ~validateDataType(m, attribute)
     THEN [ok |-> FALSE, st |-> [s1 EXCEPT !.heap[id].invalid = Append(@, attribute)]]
     ELSE [ok |-> TRUE, st |-> s1]

\* Model.addValidator(property, validator) for a string or number validator
addValidator(st, id, property, validator) ==
  LET m == st.heap[id]
      had == IF Has(m.validators, property) THEN Get(m.validators, property) ELSE <<>>
  IN IF ~HasOwnProperty(m, property) THEN st
     ELSE Emit([st EXCEPT !.heap[id].validators = Put(@, property, Append(had, validator))],
               "validator.add", property)

\* the Store's field.update handler (Store.listen), once per registration
RECURSIVE NotifyStore(_, _, _, _)
NotifyStore(st, id, delta, k) ==
  IF k = 0 THEN st
  ELSE NotifyStore(
         Emit([st EXCEPT !.index = updateIndice(@, delta.field, delta.old, delta.new,
                                                IndexOf(st.data, id))],
              "record.update", id),
         id, delta, k - 1)

\* record[field] = value: the field setter installed by Model.addField, or a
\* plain property when the record has no such field
setField(st, id, field, value) ==
  LET m == st.heap[id]
      c == UpdateChange(field, FieldValue(m, field), value)
      m2 == [m EXCEPT !.raw = Put(@, field, value), !.changelog = Append(@, c)]
      s1 == Emit([st EXCEPT !.heap[id] = m2], "field.update", c)
      s2 == NotifyStore(s1, id, c, m2.listeners)
  IN IF ~Has(m.raw, field) THEN [st EXCEPT !.heap[id].plain = Put(@, field, value)]
     ELSE IF s2.threw THEN s2
     ELSE LET v == validate(s2, id, field)
          IN IF v.st.threw THEN v.st
             ELSE IF ~v.ok THEN Emit(v.st, "field.invalid", field) ELSE v.st

\* Model.removeField: the Store listens for field.delete and does not hear
\* the field.remove emitted here
removeField(st, id, name) ==
  LET m == st.heap[id]
      c == DeleteChange(name, Get(m.raw, name))
  IN IF ~Has(m.raw, name) THEN st
     ELSE Emit([st EXCEPT !.heap[id].raw = Del(@, name),
                          !.heap[id].plain = Del(@, name),
                          !.heap[id].changelog = Append(@, c),
                          !.heap[id].invalid =
                            IF IndexOf(@, name) >= 0 THEN Splice(@, IndexOf(@, name), 1)[2]
                            ELSE @,
                          !.fields = SelectSeq(@, LAMBDA f : f # name)],
               "field.remove", c)

\* Model.addField(field, suppressEvents) for a field name
addField(st, id, field, suppressEvents) ==
  LET m == st.heap[id]
      defined == HasOwnProperty(m, field) /\ FieldValue(m, field)[1] # "undefined"
      accessor == Has(m.raw, field) /\ ~defined
      s1 == [st EXCEPT !.heap[id].plain = Del(@, field),
                       !.heap[id].raw = Put(@, field, Null),
                       !.fields = IF field \in Range(@) THEN @ ELSE Append(@, field)]
      s2 == IF accessor THEN setField(s1, id, field, Null) ELSE s1
      c == CreateChange(field)
  IN IF field = "id" THEN st
     ELSE IF suppressEvents THEN s2
     ELSE Emit([s2 EXCEPT !.heap[id].changelog = Append(@, c)], "field.create", c)

\* Model.addRelationshipField(name, cfg) for a cfg that names a model: the
\* change it records carries no join flag
addRelationshipField(st, id, name) ==
  LET m == st.heap[id]
      c == CreateChange(name)
  IN IF name \in Range(m.rawjoins) \/ name \in Range(st.fields) \/ HasOwnProperty(m, name)
     THEN Throw(st)
     ELSE Emit([st EXCEPT !.heap[id].rawjoins = Append(@, name),
                          !.heap[id].changelog = Append(@, c)],
               "relationship.create", c)

\* Model.undo(back)
RECURSIVE UndoEach(_, _, _, _)
UndoEach(st, id, old, i) ==
  IF i > Len(old) \/ st.threw THEN st
  ELSE LET change == old[i]
       IN UndoEach(
            CASE change.action = "update" -> setField(st, id, change.field, change.old)
              [] change.action = "create" -> removeField(st, id, change.field)
              [] change.action = "delete" ->
                   setField(addField(st, id, change.field, FALSE), id, change.field,
                            Undefined),
            id, old, i + 1)

\* an undo that drops the entries and does not replay them
undoWithoutReplay(st, id, back) ==
  LET n == IF back = 0 THEN 1 ELSE back
      log == st.heap[id].changelog
  IN [st EXCEPT !.heap[id].changelog = Splice(log, Len(log) - n, n)[2]]

undo(st, id, back) ==
  LET n == IF back = 0 THEN 1 ELSE back
      log == st.heap[id].changelog
      cut == Splice(log, Len(log) - n, n)
  IN UndoEach([st EXCEPT !.heap[id].changelog = cut[2]], id, Reverse(cut[1]), 1)

\* Model.history: changelog.reverse() reverses the changelog in place
history(st, id) ==
  LET reversed == Reverse(st.heap[id].changelog)
  IN Return([st EXCEPT !.heap[id].changelog = reversed], Arr(reversed))

\* ---------------------------------------------------------- Store filters
\* the filter functions handed to addFilter, called as fn(record, i):
\* record => record[field] === value and (record, i) => i === n
FieldIs(field, value) == <<"field", field, value>>
PlaceIs(n) == <<"place", "", Num(n)>>
Accepts(st, fn, id, i) ==
  IF fn[1] = "field" THEN StrictEquals(FieldValue(st.heap[id], fn[2]), fn[3])
  ELSE i = fn[3][2]

\* Array.prototype.filter(fn) on an array of records
ArrayFilter(st, data, fn) ==
  LET kept == SelectSeq([i \in 1..Len(data) |-> i],
                        LAMBDA i : Accepts(st, fn, data[i], i - 1))
  IN [k \in 1..Len(kept) |-> data[kept[k]]]

\* Store.applyFilters
RECURSIVE ApplyFrom(_, _, _)
ApplyFrom(st, data, k) ==
  IF k > Len(st.filters) THEN data
  ELSE ApplyFrom(st, ArrayFilter(st, data, st.filters[k]), k + 1)

applyFilters(st, data) == IF Len(st.filters) = 0 THEN data ELSE ApplyFrom(st, data, 1)

\* Store.records, Store.filtered
records(st) == applyFilters(st, st.data)
filtered(st) ==
  LET shown == records(st)
  IN SelectSeq(st.data,
       LAMBDA id : \A k \in 1..Len(shown) :
         ModelChecksum(st.heap[shown[k]], st.fields) # ModelChecksum(st.heap[id], st.fields))

\* Store.addFilter, Store.removeFilter(fn), Store.clearFilters()
addFilter(st, fn) == Emit([st EXCEPT !.filters = Append(@, fn)], "filter.create", fn)

removeFilter(st, fn) ==
  LET cut == Splice(st.filters, IndexOf(st.filters, fn), 1)
      s1 == [st EXCEPT !.filters = cut[2]]
  IN IF Len(cut[1]) > 0 THEN Emit(s1, "filter.delete", cut[1][1]) ELSE s1

RECURSIVE clearFilters(_)
clearFilters(st) ==
  IF Len(st.filters) = 0 THEN st
  ELSE clearFilters(Emit([st EXCEPT !.filters = SubSeq(@, 1, Len(@) - 1)],
                         "filter.delete", st.filters[Len(st.filters)]))


\* The same operations on a Store whose filter.delete event has listeners:
\* emit runs the listeners before it returns, and a listener is a function
\* that calls addFilter(fn) or removeFilter(fn) on the Store.
Never == <<"never", 0>>      \* the outcome of a call that does not return
RECURSIVE EmitFilterDelete(_, _, _)
RECURSIVE CallFilterListeners(_, _, _)
RECURSIVE removeFilterHeard(_, _, _)
EmitFilterDelete(st, fns, removed) ==
  CallFilterListeners(Emit(st, "filter.delete", removed), fns, 1)
CallFilterListeners(st, fns, i) ==
  IF i > Len(fns) THEN st
  ELSE CallFilterListeners(
         IF fns[i].kind = "addFilter" THEN addFilter(st, fns[i].payload)
         ELSE removeFilterHeard(st, fns, fns[i].payload),
         fns, i + 1)
removeFilterHeard(st, fns, fn) ==
  LET cut == Splice(st.filters, IndexOf(st.filters, fn), 1)
      s1 == [st EXCEPT !.filters = cut[2]]
  IN IF Len(cut[1]) > 0 THEN EmitFilterDelete(s1, fns, cut[1][1]) ELSE s1

\* the while loop of clearFilters: what an iteration does depends on _filters
\* alone, so a loop that finds _filters as an earlier iteration found it
\* never ends
RECURSIVE clearFiltersHeard(_, _, _)
clearFiltersHeard(st, fns, seen) ==
  IF Len(st.filters) = 0 THEN st
  ELSE IF st.filters \in seen THEN Return(st, Never)
  ELSE clearFiltersHeard(
         EmitFilterDelete([st EXCEPT !.filters = SubSeq(@, 1, Len(@) - 1)], fns,
                          st.filters[Len(st.filters)]),
         fns, seen \cup {st.filters})

\* ------------------------------------------------------------- Store.find
\* the end of find: the array applyFilters returns is not kept, and
\* resultSet is returned as it was
FindResult(st, resultSet, ignoreFilters) ==
  LET applied == IF ~ignoreFilters THEN applyFilters(st, resultSet) ELSE resultSet
  IN Return(st, Arr(resultSet))

\* find() and find(null): resultSet = this._data
findAll(st, ignoreFilters) ==
  IF Len(st.data) = 0 THEN Return(st, Arr(<<>>))
  ELSE FindResult(st, st.data, ignoreFilters)

RecordAt(st, pos) ==
  IF pos >= 0 /\ pos < Len(st.data) THEN <<"record", st.data[pos + 1]>> ELSE Undefined

\* find(number)
findNumber(st, n) ==
  IF Len(st.data) = 0 THEN Return(st, Arr(<<>>))
  ELSE Return(st, IF n < 0 \/ n >= Len(st.data) THEN Null ELSE RecordAt(st, n))

\* find(record) for a Model instance
findModel(st, id, ignoreFilters) ==
  IF Len(st.data) = 0 THEN Return(st, Arr(<<>>))
  ELSE Return(st, IF indexOf(st, id) >= 0 THEN <<"record", id>> ELSE Null)

\* find(function (record) { return record[field] === value })
findFunction(st, field, value) ==
  Return(st, Arr(SelectSeq(st.data,
                 LAMBDA id : StrictEquals(FieldValue(st.heap[id], field), value))))

\* find({field: value, ...}): the pass over the query keys, collecting the
\* index matches and the fields without an index
RECURSIVE CollectMatches(_, _, _, _)
CollectMatches(index, query, i, acc) ==
  IF i > Len(query) THEN [index |-> index, match |-> acc.match, noindex |-> acc.noindex]
  ELSE LET got == getIndices(index, query[i][1], query[i][2])
       IN IF got[1][1] # "null"
          THEN CollectMatches(got[2], query, i + 1,
                              [acc EXCEPT !.match = @ \o got[1][2]])
          ELSE CollectMatches(got[2], query, i + 1,
                              [acc EXCEPT !.noindex = Append(@, query[i][1])])

MatchesAll(m, query, keys) ==
  \A k \in Range(keys) : StrictEquals(Get(query, k), FieldValue(m, k))

findObject(st, query) ==
  IF Len(st.data) = 0 THEN Return(st, Arr(<<>>))
  ELSE
    LET c == CollectMatches(st.index, query, 1, [match |-> <<>>, noindex |-> <<>>])
        s1 == [st EXCEPT !.index = c.index]
        positions == [i \in 1..Len(st.data) |-> i - 1]
        scanned ==
          IF Len(c.noindex) > 0
          THEN SelectSeq(positions,
                 LAMBDA i : ValueIndexOf(c.match, Num(i)) < 0
                            /\ MatchesAll(st.heap[st.data[i + 1]], query, c.noindex))
          ELSE <<>>
        candidates == [i \in 1..Len(scanned) |-> RecordAt(st, scanned[i])]
                      \o [i \in 1..Len(c.match) |-> RecordAt(st, c.match[i][2])]
    IN IF Len(query) > 0 /\ \E i \in 1..Len(candidates) : candidates[i][1] = "undefined"
       THEN Throw(s1)     \* TypeError: a property of undefined is read
       ELSE LET kept == SelectSeq(candidates,
                          LAMBDA r : r[1] # "undefined"
                                     /\ MatchesAll(st.heap[r[2]], query, Keys(query)))
            IN Return(s1, Arr([i \in 1..Len(kept) |-> kept[i][2]]))
\* ------------------------------------------------------------- Store.sort
\* String.prototype.localeCompare and the < operator on two strings or on two
\* numbers: the strings are "a" and "b", ordered as their numbers are
LocaleCompare(x, y) == IF x[2] < y[2] THEN -1 ELSE IF x[2] > y[2] THEN 1 ELSE 0
LessThan(x, y) == x[2] < y[2]

\* what the comparator of sort(fn) returns for records a and b, Thrown when
\* it raises a TypeError (localeCompare is not a function of a non-string)
Thrown == 2

RECURSIVE Comparator(_, _, _, _)
Comparator(a, b, fn, i) ==
  IF i > Len(fn) THEN 0
  ELSE
    LET key == fn[i][1]
    IN IF HasOwnProperty(a, key) /\ ~HasOwnProperty(b, key) THEN 1
       ELSE IF ~HasOwnProperty(a, key) /\ HasOwnProperty(b, key) THEN -1
       ELSE IF ~StrictEquals(FieldValue(a, key), FieldValue(b, key))
       THEN CASE fn[i][2] = "asc" ->
                   IF FieldValue(a, key)[1] = "string"
                   THEN LocaleCompare(FieldValue(a, key), FieldValue(b, key))
                   ELSE Thrown
              [] fn[i][2] = "desc" ->
                   IF LessThan(FieldValue(a, key), FieldValue(b, key)) THEN 1 ELSE -1
              [] OTHER -> 0
       ELSE Comparator(a, b, fn, i + 1)

\* Array.prototype.sort(comparator), stable: each element goes behind the
\* elements that do not compare greater than it
RECURSIVE SortFrom(_, _, _, _, _)
SortFrom(heapNow, data, fn, i, sorted) ==
  IF i > Len(data) THEN sorted
  ELSE LET x == data[i]
           before == Cardinality({j \in 1..Len(sorted) :
                        Comparator(heapNow[sorted[j]], heapNow[x], fn, 1) <= 0})
       IN SortFrom(heapNow, data, fn, i + 1,
                   SubSeq(sorted, 1, before) \o <<x>> \o SubSeq(sorted, before + 1, Len(sorted)))

Arrangements(n) == {p \in [1..n -> 1..n] : \A i, j \in 1..n : p[i] = p[j] => i = j}

\* Store.sort(fn) for a declarative map fn. Two records the comparator throws
\* on are equal on the keys before and so are compared by every sort; the
\* order the array is left in when the comparator throws is up to the engine
\* (left), and reindex() is not reached.
sort(st, fn, left) ==
  LET throws == \E i, j \in 1..Len(st.data) :
                  Comparator(st.heap[st.data[i]], st.heap[st.data[j]], fn, 1) = Thrown
  IN IF throws
     THEN Throw([st EXCEPT !.data = [i \in 1..Len(st.data) |-> st.data[left[i]]]])
     ELSE Return(reindex([st EXCEPT !.data = SortFrom(st.heap, st.data, fn, 1, <<>>)]),
                 Undefined)

\* --------------------------------------------------------- Store.bulk/load
\* a bulk add that announces every record
RECURSIVE BulkAddAnnounced(_, _, _)
BulkAddAnnounced(st, array, i) ==
  IF i > Len(array) \/ st.threw THEN st
  ELSE BulkAddAnnounced(add(st, array[i], FALSE), array, i + 1)

RECURSIVE BulkAdd(_, _, _)
BulkAdd(st, array, i) ==
  IF i > Len(array) \/ st.threw THEN st
  ELSE BulkAdd(add(st, array[i], TRUE), array, i + 1)

bulk(st, event, array) ==
  LET s1 == BulkAdd([st EXCEPT !.loading = TRUE], array, 1)
  IN IF s1.threw THEN s1
     ELSE Return(Emit([s1 EXCEPT !.loading = FALSE, !.deleted = <<>>, !.created = <<>>],
                      event, Undefined), Undefined)

load(st, array) == bulk(st, "load", array)

\* Store.data
StoreData(st) == [i \in 1..Len(st.data) |-> ModelData(st.heap[st.data[i]], st.fields)]

\* Store.deduplicate: the records whose content was seen earlier are looked
\* up by position and then handed to remove one after the other
RECURSIVE RemoveEach(_, _, _)
RemoveEach(st, dupes, i) ==
  IF i > Len(dupes) \/ st.threw THEN st
  ELSE RemoveEach(removeModel(st, dupes[i], FALSE), dupes, i + 1)

deduplicate(st) ==
  LET strings == [i \in 1..Len(st.data) |-> JSONStringify(StoreData(st)[i])]
      places == SelectSeq([i \in 1..Len(strings) |-> i],
                          LAMBDA i : IndexOf(strings, strings[i]) < i - 1)
      dupes == [k \in 1..Len(places) |-> st.data[places[k]]]
  IN Return(RemoveEach(st, dupes, 1), Undefined)

\* Store.clear
clear(st) ==
  Emit([st EXCEPT !.data = <<>>, !.index = clearIndices(@)], "clear", Undefined)

\* Store.reload
reload(st, array) == bulk(clear(st), "reload", array)


\* ------------------------------------------------------------ the proxy
\* NgnDataProxy.changelog of a proxy initialised with the Store
changelog(st) ==
  Return(st,
         [create |-> st.created,
          update |-> SelectSeq(records(st),
                       LAMBDA record :
                         IF IndexOf(st.created, record) < 0 /\ IndexOf(st.deleted, record) < 0
                         THEN FALSE
                         ELSE Modified(st.heap[record], st.fields)),
          delete |-> st.deleted])

\* ------------------------------------------------------- NGN.EventEmitter
\* The emitter extensions are copied onto the EventEmitter prototype, so
\* queued, collectionQueue and thresholdQueue are one object each for every
\* emitter; listeners and the listener limit belong to one emitter.
Emitters == {1, 2}
DefaultMaxListeners == 10

NewBus ==
  [queued |-> <<>>,            \* event name -> the id of its pending timer
   collectionQueue |-> <<>>,   \* key -> collection
   thresholdQueue |-> <<>>,    \* key -> threshold
   listeners |-> [em \in Emitters |-> <<>>],   \* <<event, function>>, in order
   maxListeners |-> [em \in Emitters |-> DefaultMaxListeners],
   timers |-> <<>>,            \* pending setTimeout callbacks, oldest first
   returned |-> <<>>,          \* the handles returned by chain, threshold, forward
   made |-> 0,                 \* keys, functions and timers created so far
   log |-> <<>>,               \* <<emitter, event, arguments>> of every emit
   calls |-> 0,
   last |-> [op |-> "new", arg |-> <<>>, threw |-> FALSE]]

\* a function expression evaluates to a new function object every time
NewFunction(b, kind, event, key, triggers, payload) ==
  [kind |-> kind, event |-> event, key |-> key, triggers |-> triggers,
   payload |-> payload, id |-> b.made + 1]

\* EventEmitter.on, off, setMaxListeners
on(b, em, event, fn) ==
  [b EXCEPT !.listeners[em] = Append(@, <<event, fn>>),
            !.made = IF fn.id > @ THEN fn.id ELSE @]
off(b, em, event, fn) ==
  LET had == b.listeners[em]
      at == {i \in 1..Len(had) : had[i] = <<event, fn>>}
  IN IF at = {} THEN [b EXCEPT !.made = IF fn.id > @ THEN fn.id ELSE @]
     ELSE LET i == CHOOSE k \in at : \A other \in at : other <= k
          IN [b EXCEPT !.listeners[em] = Splice(had, i - 1, 1)[2]]
setMaxListeners(b, em, n) ==
  IF n < 0 THEN [b EXCEPT !.last.threw = TRUE] ELSE [b EXCEPT !.maxListeners[em] = n]

\* setTimeout(callback, delay)
setTimeout(b, kind, em, event, key, args) ==
  [b EXCEPT !.timers = Append(@, [kind |-> kind, em |-> em, event |-> event, key |-> key,
                                  args |-> args, id |-> b.made + 1]),
            !.made = @ + 1]

\* EventEmitter.emit: the listeners of the event run in order; the handlers
\* of chain and threshold defer their work, the listener of forward emits
RECURSIVE emit(_, _, _, _)
RECURSIVE CallListeners(_, _, _, _, _)
RECURSIVE ForwardTo(_, _, _, _, _)
emit(b, em, event, args) ==
  LET fns == SelectSeq(b.listeners[em], LAMBDA l : l[1] = event)
  IN CallListeners([b EXCEPT !.log = Append(@, <<em, event, args>>)], em, fns, args, 1)
CallListeners(b, em, fns, args, i) ==
  IF i > Len(fns) THEN b
  ELSE LET fn == fns[i][2]
       IN CallListeners(
            IF fn.kind = "forward"
            THEN ForwardTo(b, em, fn.triggers,
                           IF fn.payload # Null THEN Append(args, fn.payload) ELSE args, 1)
            ELSE setTimeout(b, fn.kind, em, fn.event, fn.key, <<>>),
            em, fns, args, i + 1)
ForwardTo(b, em, triggers, args, i) ==
  IF i > Len(triggers) THEN b
  ELSE ForwardTo(emit(b, em, triggers[i], args), em, triggers, args, i + 1)

\* forward(eventName, triggers, payload) and the remove() of its handle
forward(b, em, eventName, triggers, payload) ==
  LET listener == NewFunction(b, "forward", eventName, 0, triggers, payload)
      b1 == on(setMaxListeners(b, em, b.maxListeners[em] + 1), em, eventName, listener)
  IN [b1 EXCEPT !.returned = Append(@, [kind |-> "forward", em |-> em, key |-> 0,
                                        masterqueue |-> <<>>, listener |-> listener])]
removeForward(b, handle) ==
  LET em == handle.em
      b1 == setMaxListeners(b, em, b.maxListeners[em] - 1)
  IN IF b1.last.threw THEN b1 ELSE off(b1, em, handle.listener.event, handle.listener)

\* a delayEmit that does not look at queued
delayEmitAlways(b, em, eventName, payload) ==
  LET b1 == setTimeout(b, "delay", em, eventName, 0, <<payload>>)
  IN [b1 EXCEPT !.queued = Put(@, eventName, b1.made)]

\* delayEmit(eventName, delay, payload)
delayEmit(b, em, eventName, payload) ==
  IF ~Has(b.queued, eventName)
  THEN LET b1 == setTimeout(b, "delay", em, eventName, 0, <<payload>>)
       IN [b1 EXCEPT !.queued = Put(@, eventName, b1.made)]
  ELSE b

\* NGN.dedupe
dedupe(array) ==
  LET Keep[i \in 0..Len(array)] ==
        IF i = 0 THEN <<>>
        ELSE IF IndexOf(array, array[i]) = i - 1 THEN Append(Keep[i - 1], array[i])
             ELSE Keep[i - 1]
  IN Keep[Len(array)]

\* getInternalCollectionId: a key no collection has, the random part being new
getInternalCollectionId(b) == b.made + 1

\* handleCollectionTrigger(eventName, key): a new function on every call
handleCollectionTrigger(b, eventName, key) ==
  NewFunction(b, "collection", eventName, key, <<>>, Null)

\* chain(eventCollection, triggerEventName, payload)
RECURSIVE ListenToEach(_, _, _, _, _)
ListenToEach(b, em, events, key, i) ==
  IF i > Len(events) THEN b
  ELSE ListenToEach(
         on(setMaxListeners(b, em, b.maxListeners[em] + 1), em, events[i],
            handleCollectionTrigger(b, events[i], key)),
         em, events, key, i + 1)
chain(b, em, eventCollection, triggerEventName, payload) ==
  LET events == dedupe(eventCollection)
      key == getInternalCollectionId(b)
      b1 == [b EXCEPT !.made = key,
                      !.collectionQueue =
                         Put(@, key, [masterqueue |-> events, remainingqueue |-> events,
                                      eventName |-> triggerEventName, payload |-> payload])]
      b2 == ListenToEach(b1, em, events, key, 1)
  IN [b2 EXCEPT !.returned = Append(@, [kind |-> "chain", em |-> em, key |-> key,
                                        masterqueue |-> events, listener |-> Null])]

\* the remove() of a collection: off is handed a new function each time
RECURSIVE StopListeningToEach(_, _, _, _, _)
StopListeningToEach(b, em, events, key, i) ==
  IF i > Len(events) \/ b.last.threw THEN b
  ELSE LET b1 == setMaxListeners(b, em, b.maxListeners[em] - 1)
       IN StopListeningToEach(
            IF b1.last.threw THEN b1
            ELSE off(b1, em, events[i], handleCollectionTrigger(b1, events[i], key)),
            em, events, key, i + 1)
removeCollection(b, handle) ==
  IF ~Has(b.collectionQueue, handle.key) THEN [b EXCEPT !.last.threw = TRUE]
  ELSE LET evts == Get(b.collectionQueue, handle.key).masterqueue
       IN StopListeningToEach([b EXCEPT !.collectionQueue = Del(@, handle.key)],
                              handle.em, evts, handle.key, 1)

\* the deferred part of a chain handler that fires at every event
CollectionTimerAlways(b, t) ==
  IF Has(b.collectionQueue, t.key)
  THEN LET c == Get(b.collectionQueue, t.key) IN emit(b, t.em, c.eventName, <<c.payload>>)
  ELSE b

\* the deferred part of the handler made by handleCollectionTrigger
CollectionTimer(b, t) ==
  IF Has(b.collectionQueue, t.key)
  THEN LET c == Get(b.collectionQueue, t.key)
           remaining == IF IndexOf(c.remainingqueue, t.event) >= 0
                        THEN SelectSeq(c.remainingqueue, LAMBDA e : e # t.event)
                        ELSE c.remainingqueue
       IN IF Len(remaining) = 0
          THEN emit([b EXCEPT !.collectionQueue =
                                 Put(@, t.key, [c EXCEPT !.remainingqueue = c.masterqueue])],
                    t.em, c.eventName, <<c.payload>>)
          ELSE [b EXCEPT !.collectionQueue = Put(@, t.key, [c EXCEPT !.remainingqueue = remaining])]
  ELSE b

\* handleThresholdTrigger(key): a new function on every call
handleThresholdTrigger(b, eventName, key) ==
  NewFunction(b, "threshold", eventName, key, <<>>, Null)

\* threshold(thresholdEventName, limit, finalEventName, payload)
threshold(b, em, thresholdEventName, limit, finalEventName, payload) ==
  LET key == getInternalCollectionId(b)
      b1 == [b EXCEPT !.made = key,
                      !.thresholdQueue =
                         Put(@, key, [eventName |-> thresholdEventName, limit |-> limit,
                                      count |-> 0, finalEventName |-> finalEventName,
                                      payload |-> payload])]
      b2 == on(setMaxListeners(b1, em, b1.maxListeners[em] + 1), em, thresholdEventName,
               handleThresholdTrigger(b1, thresholdEventName, key))
  IN [b2 EXCEPT !.returned = Append(@, [kind |-> "threshold", em |-> em, key |-> key,
                                        masterqueue |-> <<>>, listener |-> Null])]

\* the remove() of a threshold
removeThreshold(b, handle) ==
  IF ~Has(b.thresholdQueue, handle.key) THEN [b EXCEPT !.last.threw = TRUE]
  ELSE LET evt == Get(b.thresholdQueue, handle.key).eventName
           b1 == setMaxListeners([b EXCEPT !.thresholdQueue = Del(@, handle.key)],
                                 handle.em, b.maxListeners[handle.em] - 1)
       IN IF b1.last.threw THEN b1
          ELSE off(b1, handle.em, evt, handleThresholdTrigger(b1, evt, handle.key))

\* the deferred part of a threshold handler that never resets its count
ThresholdTimerNoReset(b, t) ==
  IF Has(b.thresholdQueue, t.key)
  THEN LET q == Get(b.thresholdQueue, t.key)
           counted == [q EXCEPT !.count = @ + 1]
           b1 == [b EXCEPT !.thresholdQueue = Put(@, t.key, counted)]
       IN IF counted.count = counted.limit
          THEN emit(b1, t.em, q.finalEventName, <<q.payload>>)
          ELSE b1
  ELSE b

\* the deferred part of the handler made by handleThresholdTrigger
ThresholdTimer(b, t) ==
  IF Has(b.thresholdQueue, t.key)
  THEN LET q == Get(b.thresholdQueue, t.key)
           counted == [q EXCEPT !.count = @ + 1]
           b1 == [b EXCEPT !.thresholdQueue = Put(@, t.key, counted)]
       IN IF counted.count = counted.limit
          THEN LET b2 == emit(b1, t.em, q.finalEventName, <<q.payload>>)
               IN IF Has(b2.thresholdQueue, t.key)
                  THEN [b2 EXCEPT !.thresholdQueue = Put(@, t.key, [counted EXCEPT !.count = 0])]
                  ELSE b2
          ELSE b1
  ELSE b

\* the callback delayEmit hands to setTimeout
DelayTimer(b, t) ==
  emit([b EXCEPT !.queued = Del(@, t.event)], t.em, t.event, t.args)

\* a pending timer runs and is gone
RunTimer(b, i) ==
  LET t == b.timers[i]
      b1 == [b EXCEPT !.timers = Splice(@, i - 1, 1)[2]]
  IN CASE t.kind = "delay" -> DelayTimer(b1, t)
       [] t.kind = "collection" -> CollectionTimer(b1, t)
       [] t.kind = "threshold" -> ThresholdTimer(b1, t)


\* attach(eventName, preventDefaultAction) returns an arrow function; an arrow
\* function has no arguments object, so `arguments` in its body is the
\* arguments object of the attach call, kept here as the function's payload
True == <<"boolean", 1>>
StringOf(eventName) == CASE eventName = "a" -> Str(1) [] eventName = "b" -> Str(2)
attach(b, em, eventName, passed) ==
  LET arguments == <<StringOf(eventName)>> \o passed
      fn == NewFunction(b, "attach", eventName, 0, <<>>, arguments)
  IN [b EXCEPT !.made = fn.id,
               !.returned = Append(@, [kind |-> "attach", em |-> em, key |-> 0,
                                       masterqueue |-> <<>>, listener |-> fn])]

\* the returned function called with e: e.preventDefault is read when
\* preventDefaultAction is true, then emit.apply(this, args)
Attached(b, handle, e) ==
  LET fn == handle.listener
      preventDefaultAction == Len(fn.payload) > 1 /\ fn.payload[2] = True
      args == <<StringOf(fn.event)>> \o fn.payload     \* args.unshift(eventName)
  IN IF preventDefaultAction /\ e[1] \in {"null", "undefined"}
     THEN [b EXCEPT !.last.threw = TRUE]
     ELSE emit(b, handle.em, fn.event, Tail(args))

\* ------------------------------------------------------------------ inputs
\* plain objects handed to add
DataInputs ==
  {<<>>, <<<<"lname", Str(1)>>>>, <<<<"lname", Str(2)>>>>,
   <<<<"lname", Str(1)>>, <<"age", Num(1)>>>>}

\* values assigned to a field
SetInputs == [lname |-> Strings, age |-> {Num(1)}]

\* --------------------------------------------------------------- the Store
Commit(st, op, arg) ==
  /\ fields' = st.fields
  /\ heap' = st.heap
  /\ _data' = st.data
  /\ _index' = st.index
  /\ _created' = st.created
  /\ _deleted' = st.deleted
  /\ _loading' = st.loading
  /\ _filters' = st.filters
  /\ emitted' = st.emitted
  /\ last' = [op |-> op, arg |-> arg, threw |-> st.threw, result |-> st.result]
  /\ ops' = ops + 1
  /\ UNCHANGED <<allowDuplicates, errorOnDuplicate, autoid, bus>>

\* new NGN.DATA.Store({model, index: ['lname'], allowDuplicates, errorOnDuplicate})
Init ==
  /\ fields = ConfiguredFields
  /\ heap = <<>>
  /\ _data = <<>>
  /\ _index = [f \in IndexedFields |-> <<>>]
  /\ _created = <<>>
  /\ _deleted = <<>>
  /\ _loading = FALSE
  /\ _filters = <<>>
  /\ allowDuplicates \in BOOLEAN
  /\ errorOnDuplicate \in BOOLEAN
  /\ autoid = FALSE
  /\ bus = NewBus
  /\ emitted = <<>>
  /\ last = [op |-> "new", arg |-> Undefined, threw |-> FALSE, result |-> Undefined]
  /\ ops = 0

Add(d) ==
  /\ ops < MaxOps
  /\ Commit(add(Cur, d, FALSE), "add", d)

AddModel(id) ==
  /\ ops < MaxOps
  /\ Commit(addModel(Cur, id, FALSE), "addModel", id)

Remove(n) ==
  /\ ops < MaxOps
  /\ Commit(remove(Cur, n, FALSE), "remove", n)

RemoveModel(id) ==
  /\ ops < MaxOps
  /\ Commit(removeModel(Cur, id, FALSE), "removeModel", id)

SetField(id, field, value) ==
  /\ ops < MaxOps
  /\ HasOwnProperty(heap[id], field)
  /\ Commit(setField(Cur, id, field, value), "set", <<id, field, value>>)

FindObject(query) ==
  /\ ops < MaxOps
  /\ Commit(findObject(Cur, query), "find", query)

Reindex ==
  /\ ops < MaxOps
  /\ Commit(Return(reindex(Cur), Undefined), "reindex", Undefined)

Next ==
  \/ \E d \in DataInputs : Add(d)
  \/ \E id \in 1..Len(heap) : AddModel(id)
  \/ \E n \in -1..Len(_data) : Remove(n)
  \/ \E id \in 1..Len(heap) : RemoveModel(id)
  \/ \E id \in 1..Len(heap) : \E field \in DOMAIN SetInputs :
       \E value \in SetInputs[field] : SetField(id, field, value)
  \/ \E v \in Strings : FindObject(<<<<"lname", v>>>>)
  \/ Reindex

Spec == Init /\ [][Next]_vars

\* ----------------------------------------------------------- one Model
\* new Model(data) of NGN.DATA.Model({fields: {lname: null, age: null}})
ModelInit ==
  /\ fields = ConfiguredFields
  /\ \E d \in DataInputs : heap = <<ModelLoader(d, ConfiguredFields)>>
  /\ _data = <<>>
  /\ _index = [f \in IndexedFields |-> <<>>]
  /\ _created = <<>>
  /\ _deleted = <<>>
  /\ _loading = FALSE
  /\ _filters = <<>>
  /\ allowDuplicates = TRUE
  /\ errorOnDuplicate = TRUE
  /\ autoid = FALSE
  /\ bus = NewBus
  /\ emitted = <<>>
  /\ last = [op |-> "new", arg |-> Undefined, threw |-> FALSE, result |-> Undefined]
  /\ ops = 0

Undo(id, back) ==
  /\ ops < MaxOps
  /\ Commit(Return(undo(Cur, id, back), Undefined), "undo", <<id, back>>)

History(id) ==
  /\ ops < MaxOps
  /\ Commit(history(Cur, id), "history", id)

RemoveField(id, name) ==
  /\ ops < MaxOps
  /\ Commit(Return(removeField(Cur, id, name), Undefined), "removeField", <<id, name>>)

AddField(id, name) ==
  /\ ops < MaxOps
  /\ Commit(Return(addField(Cur, id, name, FALSE), Undefined), "addField", <<id, name>>)

ModelNext ==
  \/ \E field \in DOMAIN SetInputs : \E value \in SetInputs[field] : SetField(1, field, value)
  \/ \E back \in 1..2 : Undo(1, back)
  \/ History(1)
  \/ \E name \in Range(FieldNames) : RemoveField(1, name)
  \/ \E name \in Range(FieldNames) : AddField(1, name)

ModelSpec == ModelInit /\ [][ModelNext]_vars

\* records with both fields set
SortInputs ==
  {<<<<"lname", l>>, <<"age", a>>>> : l \in Strings, a \in Numbers}

\* ------------------------------------------- removal, loading, tracking
TrackInputs == {<<<<"lname", Str(1)>>>>, <<<<"lname", Str(2)>>>>}

LoadInputs ==
  {<<>>, <<<<<<"lname", Str(1)>>>>>>, <<<<<<"lname", Str(1)>>>>, <<<<"lname", Str(1)>>>>>>,
   <<<<<<"lname", Str(1)>>>>, <<<<"lname", Str(2)>>>>>>}

RemoveObject(d) ==
  /\ ops < MaxOps
  /\ Commit(removeObject(Cur, d, FALSE), "removeObject", d)

Load(array) ==
  /\ ops < MaxOps
  /\ Commit(load(Cur, array), "load", array)

Reload(array) ==
  /\ ops < MaxOps
  /\ Commit(reload(Cur, array), "reload", array)

Clear ==
  /\ ops < MaxOps
  /\ Commit(Return(clear(Cur), Undefined), "clear", Undefined)

TrackNext ==
  \/ \E d \in TrackInputs : Add(d)
  \/ \E n \in -1..Len(_data) : Remove(n)
  \/ \E id \in 1..Len(heap) : RemoveModel(id)
  \/ \E d \in TrackInputs : RemoveObject(d)
  \/ \E array \in LoadInputs : Load(array)
  \/ \E array \in LoadInputs : Reload(array)
  \/ Clear

TrackSpec == Init /\ [][TrackNext]_vars

\* ---------------------------------------------------- deduplication
Deduplicate ==
  /\ ops < MaxOps
  /\ Commit(deduplicate(Cur), "deduplicate", Undefined)

DedupNext ==
  \/ \E d \in TrackInputs : Add(d)
  \/ \E id \in 1..Len(heap) : AddModel(id)
  \/ \E id \in 1..Len(heap) : \E value \in Strings : SetField(id, "lname", value)
  \/ Deduplicate

DedupSpec == Init /\ [][DedupNext]_vars

\* ------------------------------------------- two Models of one definition
\* Person = NGN.DATA.Model({fields: {lname: null, age: null}}); new Person(data)
\* twice: both instances hold the one fields object of the definition
ValidInit ==
  /\ fields = ConfiguredFields
  /\ \E d \in TrackInputs :
       heap = <<ModelLoader(d, ConfiguredFields), ModelLoader(d, ConfiguredFields)>>
  /\ _data = <<>>
  /\ _index = [f \in IndexedFields |-> <<>>]
  /\ _created = <<>>
  /\ _deleted = <<>>
  /\ _loading = FALSE
  /\ _filters = <<>>
  /\ allowDuplicates = TRUE
  /\ errorOnDuplicate = TRUE
  /\ autoid = FALSE
  /\ bus = NewBus
  /\ emitted = <<>>
  /\ last = [op |-> "new", arg |-> Undefined, threw |-> FALSE, result |-> Undefined]
  /\ ops = 0

ValidatorInputs == [lname |-> {Str(1)}, age |-> {Num(1)}]

AddValidator(id, property, validator) ==
  /\ ops < MaxOps
  /\ Commit(Return(addValidator(Cur, id, property, validator), Undefined),
            "addValidator", <<id, property, validator>>)

ValidNext ==
  \/ \E id \in 1..Len(heap) : \E field \in DOMAIN SetInputs :
       \E value \in SetInputs[field] : SetField(id, field, value)
  \/ \E id \in 1..Len(heap) : \E property \in DOMAIN ValidatorInputs :
       \E validator \in ValidatorInputs[property] : AddValidator(id, property, validator)
  \/ \E id \in 1..Len(heap) : \E name \in Range(FieldNames) : RemoveField(id, name)

ValidSpec == ValidInit /\ [][ValidNext]_vars

\* ------------------------------------------------------ a searched Store
\* a regular expression /^a$/ or /^b$/ as a query value, and RegExp.test
Regex(i) == <<"regexp", i>>
RegexTest(re, value) == value[1] = "string" /\ value[2] = re[2]

Queries ==
  {<<<<"lname", Str(1)>>>>, <<<<"age", Num(1)>>>>,
   <<<<"lname", Str(1)>>, <<"age", Num(1)>>>>, <<<<"age", Num(1)>>, <<"lname", Str(2)>>>>,
   <<<<"lname", Regex(1)>>>>}

FindModel(id) ==
  /\ ops < MaxOps
  /\ Commit(findModel(Cur, id, FALSE), "findModel", id)

FindNumber(n) ==
  /\ ops < MaxOps
  /\ Commit(findNumber(Cur, n), "findNumber", n)

FindNext ==
  \/ \E d \in SortInputs : Add(d)
  \/ \E n \in 0..(Len(_data) - 1) : Remove(n)
  \/ \E id \in 1..Len(heap) : FindModel(id)
  \/ \E n \in -1..Len(_data) : FindNumber(n)
  \/ \E query \in Queries : FindObject(query)

FindSpec == Init /\ [][FindNext]_vars

\* ------------------------------------------------------ a filtered Store
FilterFns == {FieldIs("lname", Str(1)), FieldIs("lname", Str(2)), PlaceIs(0)}

AddFilter(fn) ==
  /\ ops < MaxOps
  /\ Commit(Return(addFilter(Cur, fn), Undefined), "addFilter", fn)

RemoveFilter(fn) ==
  /\ ops < MaxOps
  /\ Commit(Return(removeFilter(Cur, fn), Undefined), "removeFilter", fn)

ClearFilters ==
  /\ ops < MaxOps
  /\ Commit(Return(clearFilters(Cur), Undefined), "clearFilters", Undefined)

FindAll(ignoreFilters) ==
  /\ ops < MaxOps
  /\ Commit(findAll(Cur, ignoreFilters), "findAll", ignoreFilters)

FilterNext ==
  \/ \E d \in TrackInputs : Add(d)
  \/ \E fn \in FilterFns : AddFilter(fn)
  \/ \E fn \in FilterFns : RemoveFilter(fn)
  \/ ClearFilters
  \/ \E ignoreFilters \in BOOLEAN : FindAll(ignoreFilters)

FilterSpec == Init /\ [][FilterNext]_vars

\* ------------------------------------------------------- a sorted Store
SortMaps ==
  {<<<<"lname", "asc">>>>, <<<<"lname", "desc">>>>, <<<<"age", "asc">>>>, <<<<"age", "desc">>>>,
   <<<<"lname", "asc">>, <<"age", "desc">>>>, <<<<"age", "desc">>, <<"lname", "asc">>>>}

Sort(fn, left) ==
  /\ ops < MaxOps
  /\ Commit(sort(Cur, fn, left), "sort", fn)

SortNext ==
  \/ \E d \in SortInputs : Add(d)
  \/ \E id \in 1..Len(heap) : \E name \in Range(FieldNames) : RemoveField(id, name)
  \/ \E fn \in SortMaps : \E left \in Arrangements(Len(_data)) : Sort(fn, left)

SortSpec == Init /\ [][SortNext]_vars
\* add, remove and field updates only
WriteNext ==
  \/ \E d \in DataInputs : Add(d)
  \/ \E id \in 1..Len(heap) : AddModel(id)
  \/ \E n \in -1..Len(_data) : Remove(n)
  \/ \E id \in 1..Len(heap) : RemoveModel(id)
  \/ \E id \in 1..Len(heap) : \E field \in DOMAIN SetInputs :
       \E value \in SetInputs[field] : SetField(id, field, value)

WriteSpec == Init /\ [][WriteNext]_vars

\* ------------------------------------------------- a Model loaded again
\* plain objects handed to Model.load: configured keys and an unknown key
ModelLoadInputs == DataInputs \cup {<<<<"age", Num(1)>>, <<"zip", Str(1)>>>>}

\* model.load(data)
LoadModel(id, d) ==
  /\ ops < MaxOps
  /\ Commit(Return([Cur EXCEPT !.heap[id] = ModelLoad(@, d, fields)], Undefined),
            "model.load", <<id, d>>)

ReloadNext ==
  \/ \E field \in DOMAIN SetInputs : \E value \in SetInputs[field] : SetField(1, field, value)
  \/ \E name \in Range(FieldNames) : RemoveField(1, name)
  \/ \E name \in Range(FieldNames) : AddField(1, name)
  \/ Undo(1, 1)
  \/ \E d \in ModelLoadInputs : LoadModel(1, d)

ReloadSpec == ModelInit /\ [][ReloadNext]_vars

\* ------------------------------------------- a Model changing its shape
\* names of relationship fields joined after construction
JoinNames == {"spouse"}

AddRelationshipField(id, name) ==
  /\ ops < MaxOps
  /\ Commit(Return(addRelationshipField(Cur, id, name), Undefined),
            "addRelationshipField", <<id, name>>)

ShapeNext ==
  \/ \E field \in DOMAIN SetInputs : \E value \in SetInputs[field] : SetField(1, field, value)
  \/ \E name \in Range(FieldNames) : RemoveField(1, name)
  \/ \E name \in Range(FieldNames) : AddField(1, name)
  \/ \E name \in JoinNames : AddRelationshipField(1, name)
  \/ Undo(1, 1)

ShapeSpec == ModelInit /\ [][ShapeNext]_vars

\* ------------------------------------------- a Store of autoid records
\* new NGN.DATA.Store({model}) for a model definition with autoid: true
AutoidInit ==
  /\ fields = ConfiguredFields
  /\ heap = <<>>
  /\ _data = <<>>
  /\ _index = [f \in IndexedFields |-> <<>>]
  /\ _created = <<>>
  /\ _deleted = <<>>
  /\ _loading = FALSE
  /\ _filters = <<>>
  /\ allowDuplicates \in BOOLEAN
  /\ errorOnDuplicate \in BOOLEAN
  /\ autoid = TRUE
  /\ bus = NewBus
  /\ emitted = <<>>
  /\ last = [op |-> "new", arg |-> Undefined, threw |-> FALSE, result |-> Undefined]
  /\ ops = 0

\* plain objects with and without an id; "x" is Str(3)
AutoidInputs ==
  {<<>>, <<<<"lname", Str(1)>>>>, <<<<"id", Str(3)>>>>,
   <<<<"lname", Str(1)>>, <<"id", Str(3)>>>>}
AutoidArrays == {<<<<>>, <<>>>>, <<<<<<"id", Str(3)>>>>, <<<<"lname", Str(1)>>>>>>}

AutoidNext ==
  \/ \E d \in AutoidInputs : Add(d)
  \/ \E array \in AutoidArrays : Load(array)
  \/ \E n \in 0..(Len(_data) - 1) : Remove(n)

AutoidSpec == AutoidInit /\ [][AutoidNext]_vars

\* ---------------------------------------------------------- the emitters
MaxCalls == 5       \* calls of the emitter's methods in one behaviour

\* new NGN.EventEmitter(), twice
EmitterInit ==
  /\ fields = ConfiguredFields
  /\ heap = <<>>
  /\ _data = <<>>
  /\ _index = [f \in IndexedFields |-> <<>>]
  /\ _created = <<>>
  /\ _deleted = <<>>
  /\ _loading = FALSE
  /\ _filters = <<>>
  /\ allowDuplicates = TRUE
  /\ errorOnDuplicate = TRUE
  /\ autoid = FALSE
  /\ bus = NewBus
  /\ emitted = <<>>
  /\ last = [op |-> "new", arg |-> Undefined, threw |-> FALSE, result |-> Undefined]
  /\ ops = 0

\* the emitters as a call finds them, and as it leaves them
Called == [bus EXCEPT !.last.threw = FALSE]
BusCall(b, op, arg) ==
  /\ bus' = [b EXCEPT !.calls = @ + 1, !.last = [op |-> op, arg |-> arg, threw |-> b.last.threw]]
  /\ UNCHANGED <<fields, heap, storeVars, autoid, emitted, last, ops>>

DelayEmit(em, eventName, payload) ==
  /\ bus.calls < MaxCalls
  /\ BusCall(delayEmit(Called, em, eventName, payload), "delayEmit", <<em, eventName, payload>>)

EmitEvent(em, event, payload) ==
  /\ bus.calls < MaxCalls
  /\ BusCall(emit(Called, em, event, <<payload>>), "emit", <<em, event, payload>>)

Chain(em, eventCollection, triggerEventName) ==
  /\ bus.calls < MaxCalls
  /\ BusCall(chain(Called, em, eventCollection, triggerEventName, Null), "chain",
             <<em, eventCollection, triggerEventName>>)

Threshold(em, thresholdEventName, limit, finalEventName) ==
  /\ bus.calls < MaxCalls
  /\ BusCall(threshold(Called, em, thresholdEventName, limit, finalEventName, Null), "threshold",
             <<em, thresholdEventName, limit, finalEventName>>)

Forward(em, eventName, triggers, payload) ==
  /\ bus.calls < MaxCalls
  /\ BusCall(forward(Called, em, eventName, triggers, payload), "forward",
             <<em, eventName, triggers, payload>>)

\* handle.remove() of a handle returned earlier
RemoveHandle(i) ==
  /\ bus.calls < MaxCalls
  /\ LET handle == bus.returned[i]
     IN BusCall(CASE handle.kind = "chain" -> removeCollection(Called, handle)
                  [] handle.kind = "threshold" -> removeThreshold(Called, handle)
                  [] handle.kind = "forward" -> removeForward(Called, handle),
                "remove", <<i>>)

\* a pending timer matures: the timers of setTimeout(f, 0) in the order they
\* were set, the timer of a delayEmit at any time
FireTimer(i) ==
  /\ bus.timers[i].kind = "delay" \/ \A j \in 1..(i - 1) : bus.timers[j].kind = "delay"
  /\ bus' = [RunTimer(Called, i) EXCEPT !.last = [op |-> "timer", arg |-> <<bus.timers[i]>>,
                                                  threw |-> FALSE]]
  /\ UNCHANGED <<fields, heap, storeVars, autoid, emitted, last, ops>>

\* the events "save" and "sync" delayed on two emitters
DelayNext ==
  \/ \E em \in Emitters : \E payload \in Strings : DelayEmit(em, "save", payload)
  \/ DelayEmit(1, "sync", Str(1))
  \/ \E i \in 1..Len(bus.timers) : FireTimer(i)

DelaySpec == EmitterInit /\ [][DelayNext]_vars

\* one threshold on the event "a"
Limits == 1..3
ThresholdNext ==
  \/ bus.returned = <<>> /\ \E limit \in Limits : Threshold(1, "a", limit, "done")
  \/ bus.returned # <<>> /\ EmitEvent(1, "a", Null)
  \/ \E i \in 1..Len(bus.timers) : FireTimer(i)

ThresholdSpec == EmitterInit /\ [][ThresholdNext]_vars

\* one chain over the events "a" and "b"
Collections == {<<"a", "b">>, <<"a", "b", "a">>, <<"b">>}
ChainNext ==
  \/ bus.returned = <<>> /\ \E eventCollection \in Collections : Chain(1, eventCollection, "done")
  \/ bus.returned # <<>> /\ \E event \in {"a", "b"} : EmitEvent(1, event, Null)
  \/ \E i \in 1..Len(bus.returned) : RemoveHandle(i)
  \/ \E i \in 1..Len(bus.timers) : FireTimer(i)

ChainSpec == EmitterInit /\ [][ChainNext]_vars

\* handles of chain, threshold and forward, and their remove()
CancelNext ==
  \/ Chain(1, <<"a", "b">>, "done")
  \/ Threshold(1, "a", 2, "done")
  \/ Forward(1, "a", <<"c">>, Null)
  \/ \E i \in 1..Len(bus.returned) : RemoveHandle(i)
  \/ EmitEvent(1, "a", Null)
  \/ \E i \in 1..Len(bus.timers) : FireTimer(i)

CancelSpec == EmitterInit /\ [][CancelNext]_vars

\* ------------------------------------------------ a Store with a proxy
Changelog ==
  /\ ops < MaxOps
  /\ Commit(changelog(Cur), "changelog", Undefined)

ProxyNext ==
  \/ \E d \in TrackInputs : Add(d)
  \/ \E array \in LoadInputs : Load(array)
  \/ \E n \in 0..(Len(_data) - 1) : Remove(n)
  \/ \E id \in Range(_data) : \E value \in Strings : SetField(id, "lname", value)
  \/ Changelog

ProxySpec == Init /\ [][ProxyNext]_vars


\* functions made by attach for the events "a" and "b", called with data
Attach(em, eventName, passed) ==
  /\ bus.calls < MaxCalls
  /\ BusCall(attach(Called, em, eventName, passed), "attach", <<em, eventName, passed>>)

CallAttached(i, e) ==
  /\ bus.calls < MaxCalls
  /\ BusCall(Attached(Called, bus.returned[i], e), "attached", <<i, e>>)

AttachNext ==
  \/ \E eventName \in {"a", "b"} : \E passed \in {<<>>, <<True>>} :
       Attach(1, eventName, passed)
  \/ \E i \in 1..Len(bus.returned) : \E e \in Strings \cup {Null} : CallAttached(i, e)

AttachSpec == EmitterInit /\ [][AttachNext]_vars


\* store.updateIndice(field, oldValue, newValue, num) on a Store with records
UpdateIndice(field, oldValue, newValue, num) ==
  /\ ops < MaxOps
  /\ Commit(Return([Cur EXCEPT !.index = updateIndice(@, field, oldValue, newValue, num)],
                   Undefined),
            "updateIndice", <<field, oldValue, newValue, num>>)

IndexNext ==
  \/ \E d \in DataInputs : Add(d)
  \/ \E field \in IndexedFields : \E oldValue \in Strings \cup {Null} :
       \E newValue \in Strings \cup {Undefined} : \E num \in 0..(Len(_data) - 1) :
         UpdateIndice(field, oldValue, newValue, num)

IndexSpec == Init /\ [][IndexNext]_vars


\* records loaded, removed, and added again as the instances they are
ReaddNext ==
  \/ \E d \in TrackInputs : Add(d)
  \/ \E id \in 1..Len(heap) : AddModel(id)
  \/ \E n \in 0..(Len(_data) - 1) : Remove(n)
  \/ \E array \in LoadInputs : Load(array)
  \/ Clear

ReaddSpec == Init /\ [][ReaddNext]_vars


\* a Store with one filter.delete listener that adds or removes a filter
FilterListeners == [i \in 1..Len(bus.listeners[1]) |-> bus.listeners[1][i][2]]

OnFilterDelete(kind, fn) ==
  /\ ops < MaxOps /\ last.result # Never
  /\ bus.listeners[1] = <<>>
  /\ bus' = on(bus, 1, "filter.delete", NewFunction(bus, kind, "filter.delete", 0, <<>>, fn))
  /\ ops' = ops + 1
  /\ last' = [op |-> "on", arg |-> <<kind, fn>>, threw |-> FALSE, result |-> Undefined]
  /\ emitted' = <<>>
  /\ UNCHANGED <<fields, heap, storeVars, autoid>>

AddFilterHeard(fn) ==
  /\ ops < MaxOps /\ last.result # Never
  /\ Commit(Return(addFilter(Cur, fn), Undefined), "addFilter", fn)

RemoveFilterHeard(fn) ==
  /\ ops < MaxOps /\ last.result # Never
  /\ Commit(Return(removeFilterHeard(Cur, FilterListeners, fn), Undefined), "removeFilter", fn)

ClearFiltersHeard ==
  /\ ops < MaxOps /\ last.result # Never
  /\ Commit(clearFiltersHeard(Cur, FilterListeners, {}), "clearFilters", Undefined)

\* nothing is called after a call that does not return
ListenNext ==
  \/ \E kind \in {"addFilter", "removeFilter"} : \E fn \in FilterFns : OnFilterDelete(kind, fn)
  \/ \E fn \in FilterFns : AddFilterHeard(fn)
  \/ \E fn \in FilterFns : RemoveFilterHeard(fn)
  \/ ClearFiltersHeard

ListenSpec == Init /\ [][ListenNext]_vars

\* ================================================================ claims
\* the record at a zero-based position of _data
Stored(pos) == heap[_data[pos + 1]]
Positions == 0..(Len(_data) - 1)
IsDefined(m, f) == HasOwnProperty(m, f) /\ FieldValue(m, f)[1] # "undefined"
\* the positions a bucket lists after its value key
BucketPositions(bucket) == {bucket[k] : k \in 2..Len(bucket)}
Buckets(f) == 1..Len(_index[f])

\* C1: for an indexed field f, every position p whose record has f defined is
\* in exactly one bucket of f's index, the bucket keyed by the record's f
\* value, and no bucket lists a position that no such record occupies.
IndexMatchesRecords ==
  \A f \in IndexedFields :
    /\ \A p \in Positions : IsDefined(Stored(p), f) =>
         /\ Cardinality({b \in Buckets(f) : Num(p) \in BucketPositions(_index[f][b])}) = 1
         /\ \A b \in Buckets(f) : Num(p) \in BucketPositions(_index[f][b]) =>
              StrictEquals(_index[f][b][1], FieldValue(Stored(p), f))
    /\ \A b \in Buckets(f) : \A k \in 2..Len(_index[f][b]) :
         LET e == _index[f][b][k]
         IN /\ e[1] = "number" /\ e[2] \in Positions
            /\ IsDefined(Stored(e[2]), f)
            /\ StrictEquals(_index[f][b][1], FieldValue(Stored(e[2]), f))

\* C2: find({lname: v}) returns exactly the records whose lname is v, the
\* result of the linear scan find(record => record.lname === v).
IndexedFindEqualsScan ==
  last.op = "find" =>
    /\ ~last.threw
    /\ last.result = findFunction(Cur, last.arg[1][1], last.arg[1][2]).result

\* the record an add call is about: <<record, heap id>> (0: built by the call)
AddedRecord(op, arg) ==
  IF op = "add" THEN <<ModelLoader(arg, fields), 0>> ELSE <<heap[arg], arg>>
IsAddStep == ops' = ops + 1 /\ last'.op \in {"add", "addModel"}
ChecksumIsStored(m) ==
  \E p \in Positions : ModelChecksum(Stored(p), fields) = ModelChecksum(m, fields)
NoEvent(log, name) == \A i \in 1..Len(log) : log[i][1] # name

ShiftedBucket(bucket, i) ==
  LET kept == SelectSeq(Tail(bucket), LAMBDA e : ~StrictEquals(e, Num(i)))
  IN <<bucket[1]>> \o [k \in 1..Len(kept) |->
                         IF kept[k][1] = "number" /\ kept[k][2] > i
                         THEN Num(kept[k][2] - 1) ELSE kept[k]]

RemoveShiftsDown ==
  [][(ops' = ops + 1 /\ last'.op = "remove" /\ last'.arg \in Positions)
       => /\ (last'.arg + 1 \in Positions =>
                findNumber(Cur', last'.arg).result = <<"record", _data[last'.arg + 2]>>)
          /\ \A f \in IndexedFields :
               /\ Len(_index'[f]) = Len(_index[f])
               /\ \A b \in Buckets(f) : Len(_index[f][b]) > 0 =>
                    _index'[f][b] = ShiftedBucket(_index[f][b], last'.arg)]_vars
\* C6 as stated: in every reachable state, loading Store.data into an empty
\* fresh Store with the same model and options reproduces the data array.
FreshStore ==
  [Cur EXCEPT !.heap = <<>>, !.data = <<>>, !.index = [f \in IndexedFields |-> <<>>],
              !.created = <<>>, !.deleted = <<>>, !.loading = FALSE, !.filters = <<>>]
Reloaded == load(FreshStore, StoreData(Cur))
RoundTrips == ~Reloaded.threw /\ StoreData(Reloaded) = StoreData(Cur)

NoEqualChecksums ==
  \A p, q \in Positions :
    p # q => ModelChecksum(Stored(p), fields) # ModelChecksum(Stored(q), fields)

ReindexIdempotent ==
  /\ reindex(reindex(Cur)).index = reindex(Cur).index
  /\ last.op = "reindex" => reindex(Cur).index = _index

ReindexedStaleIndex ==
  /\ last.op = "reindex" /\ Len(_data) >= 1
  /\ \E f \in IndexedFields : Len(_index[f]) >= 1
  /\ Len(heap) > Len(_data)

\* C10: when add detects a duplicate, record.duplicate is emitted under every
\* policy; with allowDuplicates = false and errorOnDuplicate = false the call
\* returns without an error and without record.create, and the record
\* sequence, the indices and created are as before.
IsDuplicateOfStored(rec) == rec[2] \notin Range(_data) /\ ChecksumIsStored(rec[1])

TheModel == heap[1]
TheUpdate == TheModel.changelog[1]
SingleUpdateOfLoaded ==
  /\ last.op = "set" /\ Len(TheModel.changelog) = 1
  /\ TheUpdate.action = "update"
  /\ ~StrictEquals(TheUpdate.old, TheUpdate.new)
  /\ TheModel.benchmark =
       ModelChecksum([TheModel EXCEPT !.raw = Put(@, TheUpdate.field, TheUpdate.old)], fields)
IsUndoOne == last'.op = "undo" /\ last'.arg = <<1, 1>>

\* C5 as stated: for a loaded Model, after a single update of a field from x
\* to y, undo(1) restores x, leaves history empty and modified false.
UndoEmptiesHistory ==
  [][(SingleUpdateOfLoaded /\ IsUndoOne)
       => /\ StrictEquals(FieldValue(heap'[1], TheUpdate.field), TheUpdate.old)
          /\ history(Cur', 1).result = Arr(<<>>)
          /\ ~Modified(heap'[1], fields')]_vars

\* C5 amended: undo(1) restores x and leaves modified false; history no
\* longer holds the update from x to y and holds one entry, the update from
\* y back to x that the restoring assignment records.
UndoRestoresAndRecords ==
  [][(SingleUpdateOfLoaded /\ IsUndoOne)
       => /\ StrictEquals(FieldValue(heap'[1], TheUpdate.field), TheUpdate.old)
          /\ history(Cur', 1).result =
               Arr(<<UpdateChange(TheUpdate.field, TheUpdate.new, TheUpdate.old)>>)
          /\ ~Modified(heap'[1], fields')]_vars

UndoneSingleUpdate ==
  /\ last.op = "undo" /\ ops = 2
  /\ Len(TheModel.changelog) = 1 /\ TheUpdate.action = "update"
  /\ ~StrictEquals(TheUpdate.old, TheUpdate.new)
  /\ StrictEquals(FieldValue(TheModel, TheUpdate.field), TheUpdate.new)
  /\ ~Modified(TheModel, fields)

\* the sort step's records, before and after
SortedPositions == 1..Len(_data')
HoldsValue(m, key) ==
  HasOwnProperty(m, key) /\ FieldValue(m, key)[1] \in {"string", "number"}
AllHoldSortKeys(fn) ==
  \A id \in Range(_data) : \A i \in 1..Len(fn) : HoldsValue(heap[id], fn[i][1])

\* the first key of fn on which records a and b differ, in having the field
\* or in its value; 0 when there is none
Differs(a, b, key) ==
  \/ HasOwnProperty(a, key) # HasOwnProperty(b, key)
  \/ /\ HasOwnProperty(a, key) /\ HasOwnProperty(b, key)
     /\ ~StrictEquals(FieldValue(a, key), FieldValue(b, key))
FirstDifference(a, b, fn) ==
  LET at == {i \in 1..Len(fn) : Differs(a, b, fn[i][1])}
  IN IF at = {} THEN 0 ELSE CHOOSE i \in at : \A j \in at : i <= j

\* C8: a declarative sort of records holding strings or numbers in the sort
\* fields leaves them in lexicographic order of the map, ascending for 'asc'
\* and descending for 'desc', records equal on every key in their prior order.
SortIsLexicographicAndStable ==
  [][(last'.op = "sort" /\ AllHoldSortKeys(last'.arg))
       => /\ ~last'.threw
          /\ \A p, q \in SortedPositions :
               p < q =>
                 LET a == heap'[_data'[p]]
                     b == heap'[_data'[q]]
                     d == FirstDifference(a, b, last'.arg)
                 IN IF d = 0 THEN IndexOf(_data, _data'[p]) < IndexOf(_data, _data'[q])
                    ELSE LET key == last'.arg[d][1]
                         IN IF last'.arg[d][2] = "asc"
                            THEN FieldValue(a, key)[2] < FieldValue(b, key)[2]
                            ELSE FieldValue(a, key)[2] > FieldValue(b, key)[2]]_vars

\* C9: after a declarative sort, of two records of which exactly one lacks
\* the sort field that decides between them, the one lacking it comes after
\* the one that has it.
LackingFieldSortsLast ==
  [][(last'.op = "sort" /\ ~last'.threw)
       => \A p, q \in SortedPositions :
            p < q =>
              LET a == heap'[_data'[p]]
                  b == heap'[_data'[q]]
                  d == FirstDifference(a, b, last'.arg)
              IN d # 0 => ~(~HasOwnProperty(a, last'.arg[d][1])
                            /\ HasOwnProperty(b, last'.arg[d][1]))]_vars
\* a remove call, its target judged against the records before the call
IsRemoveStep == ops' = ops + 1 /\ last'.op \in {"remove", "removeModel", "removeObject"}
TargetMatchesNoRecord ==
  CASE last'.op = "remove" -> last'.arg < 0 \/ last'.arg >= Len(_data)
    [] last'.op = "removeModel" -> ~ChecksumIsStored(heap[last'.arg])
    [] last'.op = "removeObject" -> ~ChecksumIsStored(ModelLoader(last'.arg, fields))

\* C11: a remove whose target (position, record, raw object) matches no
\* stored record fails with an error and leaves the record sequence, the
\* indices and the created/deleted tracking as they were, with no
\* record.delete event.
RemoveOfAbsentFails ==
  [][(IsRemoveStep /\ TargetMatchesNoRecord)
       => /\ last'.threw
          /\ UNCHANGED <<_data, _index, _created, _deleted>>
          /\ NoEvent(emitted', "record.delete")]_vars

\* the one-based place of the record a successful remove took out of _data
RemovedPlace ==
  CHOOSE p \in 1..Len(_data) :
    _data' = SubSeq(_data, 1, p - 1) \o SubSeq(_data, p + 1, Len(_data))
Without(s, x) == SelectSeq(s, LAMBDA y : y # x)

\* C12: a successful remove outside a bulk load takes the removed record out
\* of created when it is there and leaves deleted alone; otherwise it puts the
\* record in deleted, once.
RemoveTracksRecord ==
  [][(IsRemoveStep /\ ~last'.threw /\ Len(_data') < Len(_data))
       => LET r == _data[RemovedPlace]
          IN IF r \in Range(_created)
             THEN _created' = Without(_created, r) /\ _deleted' = _deleted
             ELSE /\ _created' = _created
                  /\ _deleted' = IF r \in Range(_deleted) THEN _deleted
                                 ELSE Append(_deleted, r)]_vars

\* C13: a load or reload that completes emits no record.create, leaves
\* created and deleted empty and emits its terminal event once, as the last
\* event; after a reload the Store holds only records the call created.
CountEvent(log, name) == Cardinality({i \in 1..Len(log) : log[i][1] = name})
LoadIsQuietAndTerminal ==
  [][(ops' = ops + 1 /\ last'.op \in {"load", "reload"} /\ ~last'.threw)
       => /\ NoEvent(emitted', "record.create")
          /\ _created' = <<>> /\ _deleted' = <<>>
          /\ CountEvent(emitted', last'.op) = 1
          /\ emitted'[Len(emitted')][1] = last'.op
          /\ last'.op = "reload" => \A id \in Range(_data') : id > Len(heap)]_vars

ReloadedOverRecords ==
  /\ last.op = "reload" /\ ~last.threw
  /\ Len(_data) = 2 /\ Len(heap) > 2
  /\ _created = <<>> /\ _deleted = <<>>
\* the records of _data whose content no earlier record of _data has
Content(id) == ModelData(heap[id], fields)
FirstOccurrences ==
  LET keep == SelectSeq([p \in 1..Len(_data) |-> p],
                LAMBDA p : \A q \in 1..(p - 1) : Content(_data[q]) # Content(_data[p]))
  IN [k \in 1..Len(keep) |-> _data[keep[k]]]

\* C14: deduplicate leaves, of every group of records with identical
\* content, the earliest instance only, the survivors in their prior order.
DeduplicateKeepsFirst ==
  [][(ops' = ops + 1 /\ last'.op = "deduplicate") => _data' = FirstOccurrences]_vars
\* C15: with active filters, find without ignoreFilters returns no record
\* the filter chain rejects.
FindRespectsFilters ==
  (last.op = "findAll" /\ ~last.arg /\ Len(_filters) > 0)
    => \A id \in Range(last.result[2]) : id \in Range(records(Cur))

\* C19: records holds the stored records that pass the filter chain, in
\* stored order, and filtered holds exactly the stored records that do not.
FilteredIsComplement ==
  /\ \A id \in Range(_data) : (id \in Range(filtered(Cur))) # (id \in Range(records(Cur)))
  /\ Range(records(Cur)) \cup Range(filtered(Cur)) = Range(_data)
\* C16: find(m) for a Model instance m returns m when m is one of the
\* instances in the Store and null when it is not.
FindModelIsMembership ==
  last.op = "findModel" =>
    IF last.arg \in Range(_data)
    THEN last.result[1] = "record" /\ last.result[2] = last.arg
    ELSE last.result[1] = "null"

\* C17: find(n) returns the record at position n when 0 <= n < record count
\* and null for every other n, whatever the number of records.
FindNumberIsPositional ==
  last.op = "findNumber" =>
    IF last.arg >= 0 /\ last.arg < Len(_data)
    THEN last.result[1] = "record" /\ last.result[2] = _data[last.arg + 1]
    ELSE last.result[1] = "null"

\* C18: find with a field:value map returns exactly the stored records that
\* satisfy every queried field, each once; a regular expression is tested,
\* any other value compared by strict equality.
Satisfies(m, query) ==
  \A i \in 1..Len(query) :
    IF query[i][2][1] = "regexp" THEN RegexTest(query[i][2], FieldValue(m, query[i][1]))
    ELSE StrictEquals(query[i][2], FieldValue(m, query[i][1]))
FindObjectIsConjunctive ==
  last.op = "find" =>
    /\ ~last.threw
    /\ last.result[1] = "object"
    /\ \A i, j \in 1..Len(last.result[2]) : last.result[2][i] = last.result[2][j] => i = j
    /\ Range(last.result[2]) = {id \in Range(_data) : Satisfies(heap[id], last.arg)}
\* C20: an assignment to a Model field appends one update change, emits
\* field.update, then validates the field and emits field.invalid only when
\* the validation fails, the field then being among the invalid attributes;
\* the assignment raises no error.
IsAssignment == ops' = ops + 1 /\ last'.op = "set" /\ Has(heap[last'.arg[1]].raw, last'.arg[2])
AssignmentRecordsAndValidates ==
  [][IsAssignment
       => LET id == last'.arg[1]
              field == last'.arg[2]
              c == UpdateChange(field, FieldValue(heap[id], field), last'.arg[3])
          IN /\ ~last'.threw
             /\ heap'[id].changelog = Append(heap[id].changelog, c)
             /\ emitted'[1] = <<"field.update", c>>
             /\ IF field \in Range(heap'[id].invalid)
                THEN emitted' = <<<<"field.update", c>>, <<"field.invalid", field>>>>
                ELSE emitted' = <<<<"field.update", c>>>>]_vars

\* C21: Model.load(data) adds no changelog entry and emits no field.update;
\* when it returns the changelog is empty and modified is false, whatever
\* changes the Model had accumulated before.
IsModelLoad == ops' = ops + 1 /\ last'.op = "model.load"
LoadLeavesUnmodified ==
  [][IsModelLoad
       => /\ ~last'.threw
          /\ heap'[1].changelog = <<>>
          /\ NoEvent(emitted', "field.update")
          /\ ~Modified(heap'[1], fields')]_vars

\* a load over a Model that had lost a field and so had recorded a change
LoadedOverChanges ==
  /\ last.op = "model.load" /\ ops >= 2
  /\ ~Has(TheModel.raw, "age")
  /\ TheModel.changelog = <<>> /\ ~Modified(TheModel, fields)

\* C22: undo(1) is the inverse of the most recent structural change: after
\* removeField(f) it re-adds f holding the value f had before the removal;
\* after addField(f) or addRelationshipField(r) it removes that field or
\* relationship from the Model.
LastChange == TheModel.changelog[Len(TheModel.changelog)]
AfterStructuralChange(op) ==
  /\ last.op = op /\ ~last.threw
  /\ Len(TheModel.changelog) >= 1
  /\ LastChange.field = last.arg[2]
  /\ LastChange.action = IF op = "removeField" THEN "delete" ELSE "create"
UndoInvertsStructuralChange ==
  [][IsUndoOne
       => /\ AfterStructuralChange("removeField")
               => /\ Has(heap'[1].raw, LastChange.field)
                  /\ FieldValue(heap'[1], LastChange.field) = LastChange.value
          /\ AfterStructuralChange("addField")
               => ~HasOwnProperty(heap'[1], LastChange.field)
          /\ AfterStructuralChange("addRelationshipField")
               => LastChange.field \notin Range(heap'[1].rawjoins)]_vars

\* C23: history lists the Model's changes newest first while the changelog
\* stays in chronological order, however many times history is read, so that
\* undo(1) reverses the most recent change.
IsHistoryRead == ops' = ops + 1 /\ last'.op = "history"
HistoryLeavesChangelogInOrder ==
  [][IsHistoryRead
       => /\ last'.result = Arr(Reverse(TheModel.changelog))
          /\ heap'[1].changelog = TheModel.changelog]_vars

\* C25: an undo can itself be undone: after a field update from x to y,
\* undo() followed by a second undo() leaves the field holding y again.
\* The first undo restored x through the field setter, which recorded the
\* update from y to x as the newest change.
AfterUndoOfUpdate ==
  /\ last.op = "undo" /\ last.arg = <<1, 1>> /\ ~last.threw
  /\ Len(TheModel.changelog) >= 1
  /\ LastChange.action = "update"
  /\ LastChange.new[1] # "undefined"
  /\ FieldValue(TheModel, LastChange.field) = LastChange.new
SecondUndoRedoes ==
  [][(AfterUndoOfUpdate /\ IsUndoOne)
       => /\ ~last'.threw
          /\ FieldValue(heap'[1], LastChange.field) = LastChange.old
          /\ heap'[1].changelog[Len(heap'[1].changelog)] =
               UpdateChange(LastChange.field, LastChange.new, LastChange.old)]_vars

\* an update from x to y, undone and redone: the field holds y again
RedoneUpdate ==
  /\ last.op = "undo" /\ last.arg = <<1, 1>> /\ ops = 3
  /\ Len(TheModel.changelog) = 1 /\ TheUpdate.action = "update"
  /\ ~StrictEquals(TheUpdate.old, TheUpdate.new)
  /\ StrictEquals(FieldValue(TheModel, TheUpdate.field), TheUpdate.new)
  /\ Modified(TheModel, fields)

\* C24: a Store whose model has autoid = true never holds a duplicate
\* record: after any sequence of add and load of plain objects, with or
\* without an id supplied, no two stored records have the same id or the
\* same checksum.
NoTwoRecordsAlike ==
  \A i, j \in 1..Len(_data) :
    i # j => /\ heap[_data[i]].oid # heap[_data[j]].oid
             /\ StoredChecksum(Cur, i) # StoredChecksum(Cur, j)

\* the emit calls of an event, and the pending waits of a delayed event
Published(b, event) == SelectSeq(b.log, LAMBDA l : l[2] = event)
Waits(b, eventName) ==
  {i \in 1..Len(b.timers) : b.timers[i].kind = "delay" /\ b.timers[i].event = eventName}

\* C26: delayEmit publishes the event once at the end of the wait, however
\* many times it is called for that event while the wait is pending, with the
\* first call's payload; a delayEmit after the wait matured starts a new wait.
\* A call publishes nothing; it starts the one wait of the event when none is
\* pending and changes nothing otherwise; the wait's end publishes the event
\* once with the payload of the call that started it and leaves no wait.
IsDelayEmit == bus'.calls = bus.calls + 1 /\ bus'.last.op = "delayEmit"
IsDelayEnd == bus'.calls = bus.calls /\ bus'.last.op = "timer" /\ bus'.last.arg[1].kind = "delay"
TheThreshold == bus.thresholdQueue[1][2]
Handled(event) == Len(Published(bus, event)) - Len(bus.timers)
ThresholdFiresEveryLimit ==
  bus.returned # <<>>
    => /\ Len(Published(bus, "done")) = Handled("a") \div TheThreshold.limit
       /\ TheThreshold.count = Handled("a") % TheThreshold.limit

\* four emissions against a limit of two: two triggers
TwoThresholdsCrossed ==
  /\ bus.returned # <<>> /\ TheThreshold.limit = 2
  /\ Len(Published(bus, "a")) = 4 /\ bus.timers = <<>>
  /\ Len(Published(bus, "done")) = 2

\* C28: the trigger of chain(events, trigger) fires only after every event of
\* the collection has fired at least once since the chain was created or
\* since the previous trigger, once per such round in whatever order and
\* multiplicity the events arrive, and never after remove() was called.
\* The rounds are counted over the events in the order they were emitted;
\* an event is handled once its deferred handler has run.
RECURSIVE Rounds(_, _, _, _)
Rounds(events, i, seen, master) ==
  IF i > Len(events) THEN 0
  ELSE LET now == seen \cup {events[i]}
       IN IF now = master THEN 1 + Rounds(events, i + 1, {}, master)
          ELSE Rounds(events, i + 1, now, master)
Master(b) == Range(b.returned[1].masterqueue)
HandledEvents(b) ==
  LET heard == SelectSeq(b.log, LAMBDA l : l[2] \in Master(b))
  IN [i \in 1..(Len(heard) - Len(b.timers)) |-> heard[i][2]]
Triggered(b) == Len(Published(b, "done"))
Chained(b) == b.returned # <<>> /\ Has(b.collectionQueue, b.returned[1].key)
Unchained(b) == b.returned # <<>> /\ ~Has(b.collectionQueue, b.returned[1].key)
ChainFiresOncePerRound ==
  [][/\ Chained(bus') => Triggered(bus') = Rounds(HandledEvents(bus'), 1, {}, Master(bus'))
     /\ Unchained(bus') => Triggered(bus') = Triggered(bus)]_vars

\* two rounds over "a" and "b", the second in the other order
TwoRoundsChained ==
  /\ Chained(bus) /\ Master(bus) = {"a", "b"} /\ bus.timers = <<>>
  /\ HandledEvents(bus) = <<"a", "b", "b", "a">>
  /\ Triggered(bus) = 2

\* C29: remove() of a handle returned by chain, threshold or forward is
\* idempotent: a second call raises no error and leaves the queues, the
\* listeners and the listener limit as the first call left them.
AlreadyRemoved(handle) ==
  CASE handle.kind = "chain" -> ~Has(bus.collectionQueue, handle.key)
    [] handle.kind = "threshold" -> ~Has(bus.thresholdQueue, handle.key)
    [] handle.kind = "forward" ->
         \A i \in 1..Len(bus.listeners[handle.em]) :
           bus.listeners[handle.em][i][2] # handle.listener
IsRemoveCall == bus'.calls = bus.calls + 1 /\ bus'.last.op = "remove"
RemoveIsIdempotent ==
  [][(IsRemoveCall /\ AlreadyRemoved(bus.returned[bus'.last.arg[1]]))
       => /\ ~bus'.last.threw
          /\ bus'.collectionQueue = bus.collectionQueue
          /\ bus'.thresholdQueue = bus.thresholdQueue
          /\ bus'.queued = bus.queued
          /\ bus'.listeners = bus.listeners
          /\ bus'.maxListeners = bus.maxListeners]_vars

\* C30: the changelog a proxy exposes for a Store reports as create the
\* records added since the last load and still present, as delete the
\* records removed since the last load, and as update exactly the stored
\* records whose data was modified since they were loaded; a loaded record
\* that is then edited appears in update.
ChangelogReportsChanges ==
  last.op = "changelog" =>
    /\ last.result.create = _created
    /\ Range(last.result.create) \subseteq Range(_data)
    /\ last.result.delete = _deleted
    /\ Range(last.result.delete) \cap Range(_data) = {}
    /\ Range(last.result.update) = {id \in Range(_data) : Modified(heap[id], fields)}

\* C31: the function returned by attach(eventName), called with a data
\* argument, emits eventName with that data as the payload, as
\* function (data) { emit(eventName, data) } does.
AttachedEmitsData ==
  [][bus'.calls = bus.calls + 1 /\ bus'.last.op = "attached"
       => LET handle == bus.returned[bus'.last.arg[1]]
              data == bus'.last.arg[2]
          IN /\ ~bus'.last.threw
             /\ bus'.log = Append(bus.log, <<handle.em, handle.listener.event, <<data>>>>)]_vars

\* the positions an index lists under a value
PositionsUnder(index, f, v) ==
  UNION {BucketPositions(index[f][b]) :
           b \in {k \in 1..Len(index[f]) : Len(index[f][k]) > 0 /\ StrictEquals(index[f][k][1], v)}}

\* C32: updateIndice(field, oldValue, newValue, position) on an indexed field
\* removes position from the bucket keyed by oldValue and inserts it into the
\* bucket keyed by newValue, creating that bucket when none exists; when
\* newValue is undefined it only removes position from the oldValue bucket,
\* wherever that bucket sits; no other position of any bucket is changed.
UpdateIndiceMovesPosition ==
  [][last'.op = "updateIndice" /\ ops' = ops + 1
       => LET f == last'.arg[1]
              oldValue == last'.arg[2]
              newValue == last'.arg[3]
              num == Num(last'.arg[4])
          IN num \in PositionsUnder(_index, f, oldValue) /\ ~StrictEquals(oldValue, newValue)
               => \A v \in Strings \cup {Null} :
                    PositionsUnder(_index', f, v) =
                      IF StrictEquals(v, oldValue) THEN PositionsUnder(_index, f, v) \ {num}
                      ELSE IF StrictEquals(v, newValue)
                      THEN PositionsUnder(_index, f, v) \cup {num}
                      ELSE PositionsUnder(_index, f, v)]_vars

\* C33: find is read-only: for every query shape a call to find leaves the
\* Store's records, index buckets with their value keys, filters and
\* created/deleted tracking as they were.
FindIsReadOnly ==
  [][last'.op \in {"find", "findModel", "findNumber"} /\ ops' = ops + 1
       => /\ _data' = _data
          /\ _index' = _index
          /\ _filters' = _filters
          /\ _created' = _created
          /\ _deleted' = _deleted]_vars

\* C34: once a record has been removed from a Store, later field updates on
\* that record do not change the Store's indices and do not make the Store
\* emit record.update.  A record the Store listened to and no longer holds
\* is a removed record.
RemovedRecordIsForgotten ==
  [][last'.op = "set" /\ ops' = ops + 1
       => LET id == last'.arg[1]
          IN heap[id].listeners > 0 /\ id \notin Range(_data)
               => /\ _index' = _index
                  /\ NoEvent(emitted', "record.update")]_vars

\* C35: for every record held by a Store, each single field assignment on
\* that record makes the Store emit record.update exactly once and apply
\* exactly one index update, after any sequence of add calls, those that pass
\* an instance the Store already holds included.  The Store's handler applies
\* one index update and emits one record.update each time it runs, so the
\* record.update events of the assignment count both.
AssignmentUpdatesOnce ==
  [][last'.op = "set" /\ ops' = ops + 1
       => LET id == last'.arg[1]
              field == last'.arg[2]
          IN id \in Range(_data) /\ Has(heap[id].raw, field)
               => CountEvent(emitted', "record.update") = 1]_vars

\* C36: in every reachable Store state no record is in both created and
\* deleted, after any interleaving of add, remove, load and clear, removing
\* a loaded record and adding the same instance again included.
NoRecordCreatedAndDeleted == Range(_created) \cap Range(_deleted) = {}

RemoveFilterRemovesOnlyFn ==
  [][last'.op = "removeFilter" /\ ops' = ops + 1
       => LET fn == last'.arg
          IN IF IndexOf(_filters, fn) >= 0
             THEN /\ _filters' = Splice(_filters, IndexOf(_filters, fn), 1)[2]
                  /\ CountEvent(emitted', "filter.delete") = 1
             ELSE /\ _filters' = _filters
                  /\ NoEvent(emitted', "filter.delete")]_vars

\* C39: remove(r) called with a reference to a record r held by the Store
\* removes that very instance: the position r occupied is vacated, all other
\* records, those whose content equals r's included, are still present in
\* their relative order, and record.delete carries r.
RemoveTakesThatInstance ==
  [][last'.op = "removeModel" /\ ops' = ops + 1 /\ last'.arg \in Range(_data)
       => LET r == last'.arg
          IN /\ ~last'.threw
             /\ \E p \in 1..Len(_data) :
                  /\ _data[p] = r
                  /\ _data' = SubSeq(_data, 1, p - 1) \o SubSeq(_data, p + 1, Len(_data))
             /\ emitted' = <<<<"record.delete", r>>>>]_vars

\* C40: clearFilters() terminates, emitting filter.delete once for each
\* filter that was in the chain when it was called, even when a filter.delete
\* handler re-entrantly calls addFilter or removeFilter on the same Store.
ClearFiltersTerminates ==
  [][last'.op = "clearFilters" /\ ops' = ops + 1
       => /\ last'.result # Never
          /\ \A fn \in FilterFns :
               Cardinality({i \in 1..Len(emitted') : emitted'[i] = <<"filter.delete", fn>>})
                 = Cardinality({i \in 1..Len(_filters) : _filters[i] = fn})]_vars
====
